---------------------------- MODULE Spec2Model ----------------------------
(***************************************************************************)
(* Baila Beat: the 8-count Cycle Tracker (BeatCounter, utils/beatCounter), *)
(* the Beat Detector (AudioProcessor, utils/audioProcessor) and the App    *)
(* callback that feeds the one into the other.                             *)
(*                                                                         *)
(* Units.  Time is in whole milliseconds.  Energy is counted in units of   *)
(* the minimum floor 1.5 (EnergyUnit), so the floor is the integer 1 and   *)
(* every comparison of the code is stated exactly by cross-multiplying:    *)
(* e > avg*1.05 with avg = S/n is 20*n*e > 21*S, and so on.                *)
(***************************************************************************)
EXTENDS Integers, Sequences, FiniteSets, TLC

VARIABLES
    counter,  \* the BeatCounter instance (App.beatCounterRef.current)
    call,     \* the last BeatCounter method called, its arguments and result
    ap,       \* the AudioProcessor instance (App.audioProcessorRef.current)
    app,      \* the App component: its state and refs
    now,      \* performance.now(), in ms
    env,      \* the signal source: what it has fed so far
    obs       \* what the last step delivered through onBeat / onBPMUpdate

vars == <<counter, call, ap, app, now, env, obs>>

-----------------------------------------------------------------------------
(* Bounds of the tracker-only specification.                               *)

\* updateBeat calls explored after construction or after a reset(): at most
\* MaxEvents, of which at most MaxIrregular come once the hints have left
\* the 8-count pattern (or a gap has exceeded the timeout)
MaxEvents == 18

MaxIrregular == 2

\* updateBeat calls explored after a reset() that found a used tracker
MaxReplay == 3

\* timestamps handed to updateBeat (ms): gaps of exactly 3000 (4000 - 1000),
\* of 3001 (4001 - 1000), gaps from 0 and backward steps all occur
Timestamps == {0, 1000, 4000, 4001}

\* tempo hints handed to updateBeat; 0 stands for an absent hint as well
\* (`bpm && bpm > 0` is false for undefined, 0 and negative numbers alike)
BpmHints == {-1, 0, 100, 120}

-----------------------------------------------------------------------------
(* BeatCounter (src/src/utils/beatCounter.ts, lines 13-110)                *)

maxInterval == 3000

\* lines 25-39 with the empty branch of line 33 filled in: a hint more than
\* 10 % away from the stored BPM starts the count over
ApplyBpmHintRestart(c, bpm) ==
    IF bpm # 0 /\ bpm > 0
    THEN IF c.currentBPM > 0 /\ 10 * (IF bpm > c.currentBPM
                                      THEN bpm - c.currentBPM
                                      ELSE c.currentBPM - bpm) > c.currentBPM
         THEN [c EXCEPT !.currentBPM = bpm,
                        !.expectedBeatInterval = 60000 \div bpm,
                        !.currentBeat = 0, !.cycle = 0, !.cycleStartTime = 0]
         ELSE [c EXCEPT !.currentBPM = bpm,
                        !.expectedBeatInterval = 60000 \div bpm]
    ELSE c

\* field initialisers, lines 14-19
NewBeatCounter ==
    [ currentBeat          |-> 0,
      cycle                |-> 0,
      lastBeatTime         |-> 0,
      cycleStartTime       |-> 0,
      currentBPM           |-> 0,
      expectedBeatInterval |-> 0 ]

\* lines 60-61 and 101-102
DisplayBeat(c) == c.currentBeat + 1

IsDashBeat(displayBeat) == displayBeat = 4 \/ displayBeat = 8

\* lines 25-39: the tempo hint only stores the BPM and the beat interval.
\* The hints of BpmHints divide 60000, so 60000 / bpm is the exact quotient.
ApplyBpmHint(c, bpm) ==
    IF bpm # 0 /\ bpm > 0
    THEN [c EXCEPT !.currentBPM = bpm, !.expectedBeatInterval = 60000 \div bpm]
    ELSE c

\* lines 41-46
TimedOutInclusive(c, timestamp) ==
    c.lastBeatTime > 0 /\ timestamp - c.lastBeatTime >= maxInterval

TimedOut(c, timestamp) ==
    c.lastBeatTime > 0 /\ timestamp - c.lastBeatTime > maxInterval

ApplyTimeoutNever(c, timestamp) == c

ApplyTimeout(c, timestamp) ==
    IF TimedOut(c, timestamp)
    THEN [c EXCEPT !.currentBeat = 0, !.cycle = 0, !.cycleStartTime = 0]
    ELSE c

\* lines 48-58
AdvanceNoWrap(c, isDownbeat, timestamp) ==
    IF isDownbeat
    THEN [c EXCEPT !.cycle = c.cycle + 1, !.currentBeat = 0,
                   !.cycleStartTime = timestamp, !.lastBeatTime = timestamp]
    ELSE [c EXCEPT !.currentBeat = c.currentBeat + 1,
                   !.lastBeatTime = timestamp]

AdvanceKeepPosition(c, isDownbeat, timestamp) ==
    IF isDownbeat
    THEN [c EXCEPT !.cycle = c.cycle + 1,
                   !.currentBeat = (c.currentBeat + 1) % 8,
                   !.cycleStartTime = timestamp, !.lastBeatTime = timestamp]
    ELSE [c EXCEPT !.currentBeat = (c.currentBeat + 1) % 8,
                   !.lastBeatTime = timestamp]

\* lines 48-58 without the record of the cycle start
AdvanceKeepCycleStart(c, isDownbeat, timestamp) ==
    IF isDownbeat
    THEN [c EXCEPT !.cycle = c.cycle + 1, !.currentBeat = 0,
                   !.lastBeatTime = timestamp]
    ELSE [c EXCEPT !.currentBeat = (c.currentBeat + 1) % 8,
                   !.lastBeatTime = timestamp]

Advance(c, isDownbeat, timestamp) ==
    IF isDownbeat
    THEN [c EXCEPT !.cycle = c.cycle + 1, !.currentBeat = 0,
                   !.cycleStartTime = timestamp, !.lastBeatTime = timestamp]
    ELSE [c EXCEPT !.currentBeat = (c.currentBeat + 1) % 8,
                   !.lastBeatTime = timestamp]

\* lines 60-68: the BeatCounterState returned by updateBeat
UpdateResult(c, isDownbeat) ==
    [ currentBeat |-> DisplayBeat(c),
      cycle       |-> c.cycle,
      isDownbeat  |-> isDownbeat /\ ~IsDashBeat(DisplayBeat(c)),
      isDashBeat  |-> IsDashBeat(DisplayBeat(c)) ]

\* lines 22-69: the BeatCounter after updateBeat(isDownbeat, timestamp, bpm)
updateBeat(c, isDownbeat, timestamp, bpm) ==
    Advance(ApplyTimeout(ApplyBpmHint(c, bpm), timestamp), isDownbeat, timestamp)

\* lines 100-109
getState(c) ==
    [ currentBeat |-> DisplayBeat(c),
      cycle       |-> c.cycle,
      isDownbeat  |-> FALSE,
      isDashBeat  |-> IsDashBeat(DisplayBeat(c)) ]

\* lines 75-89: null, or a time in ms
getExpectedNextBeatTime(c) ==
    IF c.currentBPM = 0 \/ c.expectedBeatInterval = 0
    THEN [null |-> TRUE, time |-> 0]
    ELSE IF c.cycleStartTime = 0
    THEN [null |-> FALSE, time |-> c.lastBeatTime + c.expectedBeatInterval]
    ELSE [null |-> FALSE,
          time |-> c.cycleStartTime
                     + (c.currentBeat + 1) * c.expectedBeatInterval]

\* lines 91-98 without the two tempo fields
resetKeepTempo(c) ==
    [c EXCEPT !.currentBeat = 0, !.cycle = 0, !.lastBeatTime = 0,
              !.cycleStartTime = 0]

\* lines 91-98
reset(c) ==
    [c EXCEPT !.currentBeat = 0, !.cycle = 0, !.lastBeatTime = 0,
              !.cycleStartTime = 0, !.currentBPM = 0,
              !.expectedBeatInterval = 0]

-----------------------------------------------------------------------------
(* AudioProcessor (src/unnamed/part_003, the current utils/audioProcessor) *)

historySize == 43

downbeatInterval == 8

bpmHistorySize == 20

predictionOffset == 250

\* line 405: the beat history keeps the last 15 timestamps
beatHistorySize == 15

RECURSIVE Sum(_)
Sum(s) == IF s = <<>> THEN 0 ELSE Head(s) + Sum(Tail(s))

RECURSIVE SumSq(_)
SumSq(s) == IF s = <<>> THEN 0 ELSE Head(s) * Head(s) + SumSq(Tail(s))

Abs(x) == IF x < 0 THEN -x ELSE x

\* buf.push(x) with the shift one entry late
PushLate(buf, x, cap) ==
    IF Len(buf) + 1 > cap + 1 THEN Tail(Append(buf, x)) ELSE Append(buf, x)

\* buf.push(x); if (buf.length > cap) buf.shift()
Push(buf, x, cap) ==
    IF Len(buf) + 1 > cap THEN Tail(Append(buf, x)) ELSE Append(buf, x)

\* A time that need not be a whole number of ms: num / den, den > 0.
NoPrediction == [num |-> 0, den |-> 1]

\* fields, lines 19-47.  analyser: the node exists; animationFrameId: a frame
\* is requested.  bpmHistory and currentStableBPM are kept in 1/1000 BPM.
NewAudioProcessor ==
    [ analyser              |-> FALSE,
      animationFrameId      |-> FALSE,
      energyHistory         |-> << >>,
      beatHistory           |-> << >>,
      previousEnergy        |-> 0,
      bpmHistory            |-> << >>,
      currentStableBPM      |-> 0,
      lastBeatTime          |-> 0,
      beatCount             |-> 0,
      predictedNextBeatTime |-> NoPrediction,
      lastPredictedBeatTime |-> 0 ]

\* lines 414-417
isDownbeat(p) == p.beatCount % downbeatInterval = 0

\* lines 385-389 and 425-429: the differences of consecutive beat times
Intervals(h) == [i \in 1..(Len(h) - 1) |-> h[i + 1] - h[i]]

\* lines 422-441
updateBeatPrediction(p, currentBeatTime) ==
    IF Len(p.beatHistory) >= 2
    THEN LET intervals == Intervals(p.beatHistory)
         IN  [p EXCEPT !.predictedNextBeatTime =
                 [num |-> currentBeatTime * Len(intervals) + Sum(intervals),
                  den |-> Len(intervals)]]
    ELSE IF p.currentStableBPM > 0
    THEN [p EXCEPT !.predictedNextBeatTime =
             [num |-> currentBeatTime * p.currentStableBPM + 60000 * 1000,
              den |-> p.currentStableBPM]]
    ELSE [p EXCEPT !.predictedNextBeatTime = NoPrediction]

\* line 155: predictedNextBeatTime > 0 && now >= predictedNextBeatTime - 250
PredictionOpen(p, t) ==
    /\ p.predictedNextBeatTime.num > 0
    /\ (t + predictionOffset) * p.predictedNextBeatTime.den
          >= p.predictedNextBeatTime.num

\* lines 185-189 without the comparison with the window average
PredictiveTriggerFloorOnly(p, t, energy) ==
    /\ PredictionOpen(p, t)
    /\ Len(p.energyHistory) >= historySize
    /\ energy > 1
    /\ t - p.lastPredictedBeatTime > 100

\* lines 185-189: the recheck energy against the window as it stands before
\* this tick's sample is pushed; energy > avg * 1.05 is 20*n*e > 21*S
PredictiveTrigger(p, t, energy) ==
    /\ PredictionOpen(p, t)
    /\ Len(p.energyHistory) >= historySize
    /\ 20 * Len(p.energyHistory) * energy > 21 * Sum(p.energyHistory)
    /\ energy > 1
    /\ t - p.lastPredictedBeatTime > 100

\* The BeatDetectionResult handed to onBeat (beat, downbeat, timestamp,
\* energy), with two notes for the claims: the path that produced it and the
\* beat history as the acceptance found it.
BeatResult(downbeat, timestamp, energy, path, history) ==
    [ beat |-> TRUE, downbeat |-> downbeat, timestamp |-> timestamp,
      energy |-> energy, path |-> path, history |-> history ]

\* lines 154-212
PredictivePath(p, t, energy) ==
    IF PredictiveTrigger(p, t, energy)
    THEN LET timestamp == t + predictionOffset
             p1 == [p EXCEPT !.lastBeatTime = timestamp,
                             !.beatCount = @ + 1,
                             !.lastPredictedBeatTime = t]
         IN  [ ap    |-> updateBeatPrediction(p1, timestamp),
               beats |-> << BeatResult(isDownbeat(p), timestamp, energy,
                                       "predictive", p.beatHistory) >>,
               bpms  |-> << >> ]
    ELSE [ap |-> p, beats |-> << >>, bpms |-> << >>]

\* lines 343-350: avgEnergy < minEnergyThreshold
Silent(history) == Sum(history) < Len(history)

\* lines 352-376 without the two floor tests
ProvisionalBeatNoFloor(history, previousEnergy, e) ==
    LET n == Len(history)
        S == Sum(history)
        d == n * e - S
        V == n * SumSq(history) - S * S
    IN  /\ (d > 0 /\ 100 * d * d > 169 * V)
        /\ \/ (previousEnergy > 0 /\ 25 * (e - previousEnergy) >= 3 * previousEnergy)
           \/ 25 * n * e > 27 * S

\* lines 343-376 with the onset as the only second condition
ProvisionalBeatOnsetOnly(history, previousEnergy, e) ==
    LET n == Len(history)
        S == Sum(history)
        d == n * e - S
        V == n * SumSq(history) - S * S
    IN  /\ ~Silent(history)
        /\ e > 1
        /\ (d > 0 /\ 100 * d * d > 169 * V)
        /\ (previousEnergy > 0
              /\ 25 * (e - previousEnergy) >= 3 * previousEnergy)

\* lines 343-376: the silence gate and the accept test.  With avg = S/n and
\* variance = (n*Q - S*S)/n^2:  e > avg + 1.3*sd  is  d = n*e - S > 0 and
\* 100*d^2 > 169*(n*Q - S*S);  onset (e - prev)/prev >= 0.12 is
\* 25*(e - prev) >= 3*prev;  e > avg*1.08 is 25*n*e > 27*S.
ProvisionalBeat(history, previousEnergy, e) ==
    LET n == Len(history)
        S == Sum(history)
        d == n * e - S
        V == n * SumSq(history) - S * S
        hasOnset == previousEnergy > 0
                    /\ 25 * (e - previousEnergy) >= 3 * previousEnergy
        exceedsThreshold == d > 0 /\ 100 * d * d > 169 * V
        exceedsRelative == 25 * n * e > 27 * S
        hasSignificantEnergy == e > 1
    IN  /\ ~Silent(history)
        /\ hasSignificantEnergy
        /\ exceedsThreshold
        /\ (hasOnset \/ exceedsRelative)

Max(a, b) == IF a >= b THEN a ELSE b

Min(a, b) == IF a <= b THEN a ELSE b

\* lines 381-392 without the clamp: 0.6 * avgInterval
minIntervalFree(beatHistory) ==
    IF Len(beatHistory) >= 2
    THEN LET intervals == Intervals(beatHistory)
         IN  [num |-> 3 * Sum(intervals), den |-> 5 * Len(intervals)]
    ELSE [num |-> 200, den |-> 1]

\* lines 381-392: minInterval as num / den ms: 200 with fewer than 2 beats in
\* the history and Math.max(150, Math.min(300, avgInterval * 0.6)) otherwise,
\* avgInterval * 0.6 being 3 * sum / (5 * count)
minInterval(beatHistory) ==
    IF Len(beatHistory) >= 2
    THEN LET intervals == Intervals(beatHistory)
             den == 5 * Len(intervals)
         IN  [num |-> Max(150 * den, Min(300 * den, 3 * Sum(intervals))),
              den |-> den]
    ELSE [num |-> 200, den |-> 1]

\* line 396: now - lastBeatTime < minInterval
BelowMinInterval(gap, beatHistory) ==
    LET m == minInterval(beatHistory)
    IN  gap * m.den < m.num

\* lines 252 and 339-341: the window is not yet full
ColdStartNever(history) == FALSE

ColdStart(history) == Len(history) < historySize

\* lines 337-412.  The silence gate of lines 343-350 leaves the function as
\* a rejected candidate does: previousEnergy updated, nothing else.
detectBeat(p, currentEnergy, t) ==
    LET quiet == [ap |-> [p EXCEPT !.previousEnergy = currentEnergy],
                  detected |-> FALSE]
    IN  IF ColdStart(p.energyHistory) THEN quiet
        ELSE IF ~ProvisionalBeat(p.energyHistory, p.previousEnergy,
                                 currentEnergy)
        THEN quiet
        ELSE IF /\ Len(p.beatHistory) > 0
                /\ BelowMinInterval(t - p.beatHistory[Len(p.beatHistory)],
                                    p.beatHistory)
        THEN quiet
        ELSE [ap |-> [p EXCEPT !.beatHistory = Push(@, t, beatHistorySize),
                               !.previousEnergy = currentEnergy],
              detected |-> TRUE]

\* lines 447-465 with the plain mean for every length
calculateStableBPMMean(p) ==
    IF Len(p.bpmHistory) = 0 THEN 0
    ELSE Sum(p.bpmHistory) \div Len(p.bpmHistory)

\* lines 447-465; TLC's SortSeq sorts as Array.prototype.sort does here
calculateStableBPM(p) ==
    IF Len(p.bpmHistory) = 0 THEN 0
    ELSE LET sorted == SortSeq(p.bpmHistory, LAMBDA a, b : a < b)
         IN  IF Len(sorted) >= 5
             THEN LET mid == Len(sorted) \div 2
                      start == IF mid - 2 > 0 THEN mid - 2 ELSE 0
                      end == IF mid + 3 < Len(sorted) THEN mid + 3
                             ELSE Len(sorted)
                      middleValues == SubSeq(sorted, start + 1, end)
                  IN  Sum(middleValues) \div Len(middleValues)
             ELSE Sum(sorted) \div Len(sorted)

\* line 276 without its bounds
BpmInRangeAny(interval) == interval > 0

\* 60 <= 60000/interval <= 200, for any interval (0 and negative included)
BpmInRange(interval) ==
    interval > 0 /\ 60 * interval <= 60000 /\ 60000 <= 200 * interval

\* lines 304-311 without the smoothing
SmoothedNot(old, stableBPM) == stableBPM

\* lines 304-311: currentStableBPM * 0.8 + stableBPM * 0.2 once established
Smoothed(old, stableBPM) ==
    IF old = 0 THEN stableBPM ELSE (8 * old + 2 * stableBPM) \div 10

\* lines 279-284 without the outlier filter
RejectedNever(p, bpm) == FALSE

\* lines 279-284: hasEnoughSamples && currentStableBPM > 0 and
\* Math.abs(bpm - currentStableBPM) > currentStableBPM * 0.4
Rejected(p, bpm) ==
    /\ Len(p.bpmHistory) >= 5
    /\ p.currentStableBPM > 0
    /\ 5 * Abs(bpm - p.currentStableBPM) > 2 * p.currentStableBPM

\* lines 268-316: the tempo update of a main-path beat
UpdateTempo(p, timestamp) ==
    LET interval == timestamp - p.lastBeatTime
        none == [ap |-> p, bpms |-> << >>]
    IN  IF ~(p.lastBeatTime > 0) THEN none
        ELSE IF ~BpmInRange(interval) THEN none
        ELSE LET bpm == (60000 * 1000) \div interval
                 p1 == IF Rejected(p, bpm) THEN p
                       ELSE [p EXCEPT !.bpmHistory =
                                Push(@, bpm, bpmHistorySize)]
             IN  IF Len(p1.bpmHistory) >= 3
                 THEN LET stableBPM == calculateStableBPM(p1)
                          new == Smoothed(p1.currentStableBPM, stableBPM)
                      IN  [ap |-> [p1 EXCEPT !.currentStableBPM = new],
                           bpms |-> << (new + 500) \div 1000 >>]
                 ELSE [ap |-> p1, bpms |-> << >>]

\* lines 266-329: a main-path beat that is not suppressed
AcceptBeatNoCount(p, timestamp, energy, history) ==
    LET tempo == UpdateTempo(p, timestamp)
        p1 == [tempo.ap EXCEPT !.lastBeatTime = timestamp]
    IN  [ ap    |-> updateBeatPrediction(p1, timestamp),
          beats |-> << BeatResult(isDownbeat(p), timestamp, energy,
                                  "main", history) >>,
          bpms  |-> tempo.bpms ]

AcceptBeat(p, timestamp, energy, history) ==
    LET tempo == UpdateTempo(p, timestamp)
        p1 == [tempo.ap EXCEPT !.lastBeatTime = timestamp,
                               !.beatCount = @ + 1]
    IN  [ ap    |-> updateBeatPrediction(p1, timestamp),
          beats |-> << BeatResult(isDownbeat(p), timestamp, energy,
                                  "main", history) >>,
          bpms  |-> tempo.bpms ]

\* lines 259-264: a main-path beat right after a predictive trigger
SuppressedNever(p, t) == FALSE

Suppressed(p, t) == t - p.lastPredictedBeatTime < 150

\* lines 214-334
MainPath(p, t, energy) ==
    LET p1 == [p EXCEPT !.energyHistory = Push(@, energy, historySize)]
        none == << >>
    IN  IF ~ColdStart(p1.energyHistory)
        THEN LET d == detectBeat(p1, energy, t)
             IN  IF d.detected
                 THEN IF Suppressed(d.ap, t)
                      THEN [ap |-> d.ap, beats |-> none, bpms |-> none]
                      ELSE AcceptBeat(d.ap, t, energy, p1.beatHistory)
                 ELSE [ap |-> d.ap, beats |-> none, bpms |-> none]
        ELSE [ap |-> p1, beats |-> none, bpms |-> none]

\* lines 142-335: one frame callback at time t.  `recheck` is the energy of
\* the frame read at line 159, `energy` that of the frame read at line 216.
\* Every way out of the function requests the next frame.
processAudio(p, t, recheck, energy) ==
    IF ~p.analyser
    THEN [ap |-> p, beats |-> << >>, bpms |-> << >>]
    ELSE LET early == PredictivePath(p, t, recheck)
             main  == MainPath(early.ap, t, energy)
         IN  [ ap    |-> [main.ap EXCEPT !.animationFrameId = TRUE],
               beats |-> early.beats \o main.beats,
               bpms  |-> early.bpms \o main.bpms ]

\* lines 467-469: Math.round(currentStableBPM)
getBPM(p) == (p.currentStableBPM + 500) \div 1000

\* lines 53-102, up to the first processAudio() call of line 97
start(p) == [p EXCEPT !.analyser = TRUE]

\* lines 104-140: the frame request is dropped and the nine detection fields
\* are cleared one by one
stop(p) ==
    [p EXCEPT !.animationFrameId = FALSE,
              !.analyser = FALSE,
              !.energyHistory = << >>,
              !.beatHistory = << >>,
              !.bpmHistory = << >>,
              !.beatCount = 0,
              !.lastBeatTime = 0,
              !.previousEnergy = 0,
              !.currentStableBPM = 0,
              !.predictedNextBeatTime = NoPrediction,
              !.lastPredictedBeatTime = 0]

\* lines 142-335 when the callback named `at` ("onBeat" or "onBPMUpdate")
\* calls stop() on the processor that invokes it.  The function carries on
\* after the callback returns:
\*   onBeat of the predictive path (line 201): line 214 reads
\*     this.analyser.frequencyBinCount of the analyser stop() has set to
\*     null; the TypeError ends the tick and no frame is requested;
\*   onBPMUpdate (line 313): lines 318-329 set lastBeatTime, count the beat,
\*     renew the prediction and invoke onBeat, and line 334 requests a frame;
\*   onBeat of the main path (line 324): line 334 requests a frame.
\* `stopped`: the callback was invoked, `thrown`: the tick ended in the error.
processAudioStopping(p, t, recheck, energy, at) ==
    IF ~p.analyser
    THEN [ap |-> p, beats |-> << >>, bpms |-> << >>,
          stopped |-> FALSE, thrown |-> FALSE]
    ELSE LET early == PredictivePath(p, t, recheck)
             main  == MainPath(early.ap, t, energy)
         IN  IF at = "onBeat" /\ early.beats # << >>
             THEN [ap |-> stop(early.ap), beats |-> early.beats,
                   bpms |-> << >>, stopped |-> TRUE, thrown |-> TRUE]
             ELSE IF at = "onBPMUpdate" /\ main.bpms # << >>
             THEN LET p1 == [stop(main.ap) EXCEPT !.lastBeatTime = t,
                                                  !.beatCount = @ + 1]
                  IN  [ap |-> [updateBeatPrediction(p1, t)
                                  EXCEPT !.animationFrameId = TRUE],
                       beats |-> early.beats \o main.beats,
                       bpms |-> early.bpms \o main.bpms,
                       stopped |-> TRUE, thrown |-> FALSE]
             ELSE IF at = "onBeat" /\ main.beats # << >>
             THEN [ap |-> [stop(main.ap) EXCEPT !.animationFrameId = TRUE],
                   beats |-> early.beats \o main.beats,
                   bpms |-> early.bpms \o main.bpms,
                   stopped |-> TRUE, thrown |-> FALSE]
             ELSE [ap |-> [main.ap EXCEPT !.animationFrameId = TRUE],
                   beats |-> early.beats \o main.beats,
                   bpms |-> early.bpms \o main.bpms,
                   stopped |-> FALSE, thrown |-> FALSE]

\* the record of tracker calls before any call was made
NoCall ==
    [ op |-> "none", isDownbeat |-> FALSE, timestamp |-> 0, bpm |-> 0,
      prevTimestamp |-> 0, pre |-> NewBeatCounter, hadPrev |-> FALSE, k |-> 0, regular |-> TRUE,
      irregular |-> 0,
      ret |-> getState(NewBeatCounter),
      fresh |-> NewBeatCounter, dirty |-> FALSE,
      plain |-> NewBeatCounter, hinted |-> FALSE, underway |-> FALSE ]

\* the record of tracker calls after reset() found the tracker as c: `fresh`
\* is a newly constructed tracker, to be fed the calls that follow, and
\* `dirty` says that some reset so far found a tracker that had been used;
\* `plain` is a tracker fed the same events without any tempo hint, `hinted`
\* says a positive hint was given since construction or reset, `underway`
\* that a true hint was processed since the last reset or timeout
AfterReset(cl, c) ==
    [NoCall EXCEPT !.op = "reset", !.pre = c,
                   !.dirty = cl.dirty \/ c # NewBeatCounter]

-----------------------------------------------------------------------------
(* App (src/unnamed/part_001, lines 9-152): the component that owns the     *)
(* processor and the tracker.  A timer ref holds the time at which the     *)
(* timer fires, 0 for null (a timer that has fired is as good as cleared:  *)
(* clearTimeout does nothing to it).                                       *)

NO_MUSIC_TIMEOUT == 2000

\* lines 10-26, without the error text and the haptics toggle
NewApp ==
    [ isListening          |-> FALSE,
      currentBeat          |-> 0,
      cycle                |-> 0,
      isDownbeat           |-> FALSE,
      isDashBeat           |-> FALSE,
      bpm                  |-> 0,
      noMusicDetected      |-> FALSE,
      audioProcessorRef    |-> FALSE,
      lastBeatTimeRef      |-> 0,
      noMusicTimerRef      |-> 0,
      hasDetectedBeatRef   |-> FALSE,
      musicStoppedTimerRef |-> 0 ]

\* lines 105-109: the "no beat within 5 s of the start" timer
NoMusicTimeout(a) ==
    [a EXCEPT !.noMusicTimerRef = 0,
              !.noMusicDetected = IF a.hasDetectedBeatRef THEN @ ELSE TRUE]

\* lines 51-59: the "no beat for NO_MUSIC_TIMEOUT" timer
MusicStoppedTimeout(a) ==
    [a EXCEPT !.musicStoppedTimerRef = 0,
              !.noMusicDetected = TRUE,
              !.currentBeat = 0, !.cycle = 0,
              !.isDownbeat = FALSE, !.isDashBeat = FALSE, !.bpm = 0]

\* the timers due by time t run before the frame callback of time t
FireTimers(a, t) ==
    LET a1 == IF a.noMusicTimerRef # 0 /\ a.noMusicTimerRef <= t
              THEN NoMusicTimeout(a) ELSE a
    IN  IF a1.musicStoppedTimerRef # 0 /\ a1.musicStoppedTimerRef <= t
        THEN MusicStoppedTimeout(a1) ELSE a1

\* what `call` holds after updateBeat(hint, timestamp, bpm) found the
\* tracker as c and the record of the call before as cl
Recorded(cl, c, hint, timestamp, bpm) ==
    LET regular == /\ cl.regular
                   /\ hint = (cl.k % 8 = 0)
                   /\ (cl.k > 0 => timestamp - cl.timestamp <= maxInterval)
    IN  [ op |-> "updateBeat", isDownbeat |-> hint,
          timestamp |-> timestamp, bpm |-> bpm,
          prevTimestamp |-> cl.timestamp,
          pre |-> c,
          hadPrev |-> cl.k > 0,
          k |-> cl.k + 1,
          regular |-> regular,
          irregular |-> IF regular THEN 0 ELSE cl.irregular + 1,
          ret |-> UpdateResult(updateBeat(c, hint, timestamp, bpm), hint),
          fresh |-> updateBeat(cl.fresh, hint, timestamp, bpm),
          dirty |-> cl.dirty,
          plain |-> updateBeat(cl.plain, hint, timestamp, 0),
          hinted |-> cl.hinted \/ bpm > 0,
          underway |-> hint \/ (cl.underway /\ ~TimedOut(c, timestamp)) ]

\* lines 29-78 (the haptics of 70-77 left out): onBeat at time t.  st holds
\* the App, the tracker and the record of the last tracker call.
handleBeat(st, result, t) ==
    IF t - st.app.lastBeatTimeRef < 100
    THEN st
    ELSE LET counterState ==
                 UpdateResult(updateBeat(st.counter, result.downbeat,
                                         result.timestamp, 0),
                              result.downbeat)
         IN  [ app |-> [st.app EXCEPT
                          !.lastBeatTimeRef = t,
                          !.hasDetectedBeatRef = TRUE,
                          !.noMusicDetected = FALSE,
                          !.noMusicTimerRef = 0,
                          !.musicStoppedTimerRef = t + NO_MUSIC_TIMEOUT,
                          !.currentBeat = counterState.currentBeat,
                          !.cycle = counterState.cycle,
                          !.isDownbeat = counterState.isDownbeat,
                          !.isDashBeat = counterState.isDashBeat],
               counter |-> updateBeat(st.counter, result.downbeat,
                                      result.timestamp, 0),
               call |-> Recorded(st.call, st.counter, result.downbeat,
                                 result.timestamp, 0) ]

\* lines 80-82
handleBPMUpdate(st, newBPM) == [st EXCEPT !.app.bpm = newBPM]

RECURSIVE HandleBeats(_, _, _)
HandleBeats(st, beats, t) ==
    IF beats = << >> THEN st
    ELSE HandleBeats(handleBeat(st, Head(beats), t), Tail(beats), t)

RECURSIVE HandleBPMUpdates(_, _)
HandleBPMUpdates(st, bpms) ==
    IF bpms = << >> THEN st
    ELSE HandleBPMUpdates(handleBPMUpdate(st, Head(bpms)), Tail(bpms))

\* the callbacks of one processAudio run r, made at time t
Callbacks(st, r, t) == HandleBPMUpdates(HandleBeats(st, r.beats, t), r.bpms)

\* lines 84-115 after the processor has started: the rest of startListening
Listening(st, t) ==
    [ app |-> [st.app EXCEPT
                 !.audioProcessorRef = TRUE,
                 !.isListening = TRUE,
                 !.currentBeat = 0, !.cycle = 0,
                 !.isDownbeat = FALSE, !.isDashBeat = FALSE, !.bpm = 0,
                 !.noMusicDetected = FALSE,
                 !.hasDetectedBeatRef = FALSE,
                 !.noMusicTimerRef = t + 5000],
      counter |-> reset(st.counter),
      call |-> AfterReset(st.call, st.counter) ]

\* lines 117-138, the App's part
Stopped(a) ==
    [a EXCEPT !.audioProcessorRef = FALSE,
              !.noMusicTimerRef = 0,
              !.musicStoppedTimerRef = 0,
              !.isListening = FALSE,
              !.currentBeat = 0, !.cycle = 0,
              !.isDownbeat = FALSE, !.isDashBeat = FALSE, !.bpm = 0,
              !.noMusicDetected = FALSE,
              !.hasDetectedBeatRef = FALSE]

-----------------------------------------------------------------------------
(* What a step delivered.  obs.beats: the Beat Events of the last step in  *)
(* delivery order, each with the number of events delivered before it      *)
(* since the processor started (index), its timestamp less that of the     *)
(* event before it (gap) and whether that is less than the debounce        *)
(* interval of its acceptance (tooSoon).                                   *)
(* obs.delivered: the timestamps of the last beatHistorySize events         *)
(* delivered since the start, obs.mains: the number of events since the     *)
(* last start that came from the main path (mainsBefore: before the event). *)
(* obs.loud: some snapshot since the start exceeded the minimum floor.     *)
(* obs.recheck, obs.energy: the two snapshots of the last step;            *)
(* obs.before: the energy history as the step found it, obs.pre: the whole *)
(* processor as the step found it, obs.tick: the time of the step.         *)
(* obs.strong: the sample of the step passes the accept test of detectBeat *)
(* on a full window.  obs.prevTick, obs.prevStrong: the time of the last   *)
(* earlier step that delivered a Beat Event (0: none) and its obs.strong.  *)

NoObs ==
    [ op |-> "none", beats |-> << >>, bpms |-> << >>,
      emitted |-> 0, lastTimestamp |-> 0, loud |-> FALSE,
      recheck |-> 0, energy |-> 0, before |-> << >>,
      pre |-> NewAudioProcessor, tick |-> 0, strong |-> FALSE,
      prevTick |-> 0, prevStrong |-> FALSE,
      delivered |-> << >>, mains |-> 0 ]

RECURSIVE Noted(_, _)
Noted(o, beats) ==
    IF beats = << >> THEN o
    ELSE LET b == Head(beats)
             entry == [ downbeat |-> b.downbeat, timestamp |-> b.timestamp,
                        energy |-> b.energy, path |-> b.path,
                        index |-> o.emitted,
                        mainsBefore |-> o.mains,
                        gap |-> b.timestamp - o.lastTimestamp,
                        tooSoon |-> /\ o.emitted > 0
                                    /\ BelowMinInterval(
                                           b.timestamp - o.lastTimestamp,
                                           b.history) ]
         IN  Noted([o EXCEPT !.beats = Append(@, entry),
                             !.emitted = @ + 1,
                             !.delivered = IF Len(@) + 1 > beatHistorySize
                                           THEN Tail(Append(@, b.timestamp))
                                           ELSE Append(@, b.timestamp),
                             !.mains = IF b.path = "main" THEN @ + 1 ELSE @,
                             !.lastTimestamp = b.timestamp],
                   Tail(beats))

\* lines 352-376 applied to the window of a tick that found the processor
\* as p and read `energy` at line 216
Strong(p, energy) ==
    /\ Len(p.energyHistory) + 1 >= historySize
    /\ ProvisionalBeat(Push(p.energyHistory, energy, historySize),
                       p.previousEnergy, energy)

Observed(o, op, p, t, r, recheck, energy) ==
    Noted([o EXCEPT !.op = op, !.beats = << >>, !.bpms = r.bpms,
                    !.mains = IF op = "start" THEN 0 ELSE @,
                    !.loud = @ \/ recheck > 1 \/ energy > 1,
                    !.recheck = recheck, !.energy = energy,
                    !.before = p.energyHistory,
                    !.pre = p, !.tick = t,
                    !.strong = Strong(p, energy),
                    !.prevTick = IF o.beats # << >> THEN o.tick ELSE @,
                    !.prevStrong = IF o.beats # << >> THEN o.strong ELSE @],
          r.beats)

-----------------------------------------------------------------------------
(* Steps of the running program.                                           *)

\* a frame callback dt ms after the last step: AudioProcessor.processAudio
\* with the App's callbacks
Frame(dt, recheck, energy) ==
    /\ ap.analyser
    /\ ap.animationFrameId
    /\ \E r \in {processAudio(ap, now + dt, recheck, energy)} :
       \E st \in {Callbacks([app |-> FireTimers(app, now + dt),
                             counter |-> counter, call |-> call],
                            r, now + dt)} :
          /\ now' = now + dt
          /\ ap' = r.ap
          /\ app' = st.app
          /\ counter' = st.counter
          /\ call' = st.call
          /\ obs' = Observed(obs, "frame", ap, now + dt, r,
                            recheck, energy)

\* App.startListening with a fresh AudioProcessor: start() runs the first
\* processAudio itself (line 97), dt ms after the click
StartListening(dt, energy) ==
    /\ ~app.isListening
    /\ \E r \in {processAudio(start(NewAudioProcessor), now + dt,
                               energy, energy)} :
       \E st \in {Listening(Callbacks([app |-> FireTimers(app, now + dt),
                                       counter |-> counter, call |-> call],
                                      r, now + dt), now + dt)} :
          /\ now' = now + dt
          /\ ap' = r.ap
          /\ app' = st.app
          /\ counter' = st.counter
          /\ call' = st.call
          /\ obs' = Observed(NoObs, "start", NewAudioProcessor, now + dt,
                            r, energy, energy)

\* App.stopListening
StopListening ==
    /\ app.isListening
    /\ ap' = stop(ap)
    /\ app' = Stopped(app)
    /\ obs' = [NoObs EXCEPT !.op = "stop"]
    /\ UNCHANGED <<now, counter, call>>

-----------------------------------------------------------------------------
(* Spec: the program fed by a bounded but otherwise free signal.  After a  *)
(* start the source holds its background level for QuietFrames frames at   *)
(* the display cadence, but for frame EarlyFrame, which is free; after     *)
(* them every frame is free: it may come after any step of Steps and carry *)
(* any energy of Energies, its recheck read included.  There are MaxFree   *)
(* free frames in all, and stopping costs StopCost of them.                *)

QuietFrames == 42

FrameMs == 16

MaxFree == 4

MaxRestarts == 1

StopCost == 2

\* energies in units of 1.5: silence, the floor itself, a loud pulse
Energies == {0, 1, 60}

Backgrounds == {0, 1, 60}

Steps == {300, 500}

\* the one frame of the cold start that may already carry any energy
EarlyFrame == 10

Init ==
    /\ counter = NewBeatCounter
    /\ call = NoCall
    /\ ap = NewAudioProcessor
    /\ app = NewApp
    /\ now = 0
    /\ obs = NoObs
    /\ env \in [bg : Backgrounds, frames : {0}, free : {0}, starts : {0}]

Start ==
    /\ env.starts <= MaxRestarts
    /\ StartListening(FrameMs, env.bg)
    /\ env' = [env EXCEPT !.frames = 1, !.starts = @ + 1]

QuietFrame ==
    /\ env.frames < QuietFrames
    /\ Frame(FrameMs, env.bg, env.bg)
    /\ env' = [env EXCEPT !.frames = @ + 1]

FreeFrame ==
    /\ env.frames >= QuietFrames \/ env.frames = EarlyFrame
    /\ env.free < MaxFree
    /\ \E dt \in Steps, energy \in Energies :
          \E recheck \in (IF PredictionOpen(ap, now + dt)
                          THEN Energies ELSE {energy}) :
              Frame(dt, recheck, energy)
    /\ env' = [env EXCEPT !.frames = @ + 1, !.free = @ + 1]

Stop ==
    /\ env.starts <= MaxRestarts
    /\ env.frames >= QuietFrames
    /\ env.free + StopCost <= MaxFree
    /\ StopListening
    /\ env' = [env EXCEPT !.free = @ + StopCost]

Next == Start \/ QuietFrame \/ FreeFrame \/ Stop

Spec == Init /\ [][Next]_vars

-----------------------------------------------------------------------------
(* SpecTrain: the program fed by a pulse train over silence.  Frames come  *)
(* every TrainFrameMs; after FirstPulse frames every PulseEvery-th frame   *)
(* carries a pulse of TrainPulse units, the others carry nothing.  After   *)
(* any pulse the train may break off for ShortRest or LongRest silent      *)
(* frames, and then one last pulse of any energy of ReplayPulses follows.  *)
(* On at most MaxMisses pulses the recheck read of line 159 still sees the *)
(* silence before the pulse.                                               *)

TrainFrameMs == 20

PulseEvery == 25

FirstPulse == 50

MaxPulses == 20

ShortRest == 50

LongRest == 200

MaxMisses == 1

TrainPulse == 60

\* a soft pulse, twice the floor, and a loud one
ReplayPulses == {2, 60}

InitTrain ==
    /\ counter = NewBeatCounter
    /\ call = NoCall
    /\ ap = NewAudioProcessor
    /\ app = NewApp
    /\ now = 0
    /\ obs = NoObs
    /\ env = [phase |-> "idle", frames |-> 0, pulses |-> 0, rest |-> 0,
              restLen |-> 0, misses |-> 0]

StartTrain ==
    /\ env.phase = "idle"
    /\ StartListening(TrainFrameMs, 0)
    /\ env' = [env EXCEPT !.phase = "play", !.frames = 1]

\* the frame about to come carries a pulse of the train
PulseDue ==
    /\ env.frames + 1 >= FirstPulse
    /\ (env.frames + 1 - FirstPulse) % PulseEvery = 0

SilentFrame ==
    /\ env.phase = "play"
    /\ ~PulseDue
    /\ Frame(TrainFrameMs, 0, 0)
    /\ env' = [env EXCEPT !.frames = @ + 1]

PulseFrame ==
    /\ env.phase = "play"
    /\ PulseDue
    /\ env.pulses < MaxPulses
    /\ Frame(TrainFrameMs, TrainPulse, TrainPulse)
    /\ env' = [env EXCEPT !.frames = @ + 1, !.pulses = @ + 1]

MissedPulseFrame ==
    /\ env.phase = "play"
    /\ PulseDue
    /\ env.pulses < MaxPulses
    /\ env.misses < MaxMisses
    /\ PredictionOpen(ap, now + TrainFrameMs)
    /\ Frame(TrainFrameMs, 0, TrainPulse)
    /\ env' = [env EXCEPT !.frames = @ + 1, !.pulses = @ + 1,
                          !.misses = @ + 1]

BreakOff ==
    /\ env.phase = "play"
    /\ env.pulses >= 1
    /\ obs.energy = TrainPulse
    /\ \E len \in {ShortRest, LongRest} :
          env' = [env EXCEPT !.phase = "rest", !.rest = 1, !.restLen = len]
    /\ Frame(TrainFrameMs, 0, 0)

RestFrame ==
    /\ env.phase = "rest"
    /\ env.rest < env.restLen
    /\ Frame(TrainFrameMs, 0, 0)
    /\ env' = [env EXCEPT !.rest = @ + 1]

ReplayFrame ==
    /\ env.phase = "rest"
    /\ env.rest = env.restLen
    /\ \E energy \in ReplayPulses : Frame(TrainFrameMs, energy, energy)
    /\ env' = [env EXCEPT !.phase = "done"]

NextTrain ==
    \/ StartTrain
    \/ SilentFrame
    \/ PulseFrame
    \/ MissedPulseFrame
    \/ BreakOff
    \/ RestFrame
    \/ ReplayFrame

SpecTrain == InitTrain /\ [][NextTrain]_vars

-----------------------------------------------------------------------------
(* SpecTempo: the program fed by pulses whose spacing alternates between   *)
(* two gaps, each any number of frames of Gaps, chosen at the start; a     *)
(* source of even spacing may change its gap once, after a pulse whose     *)
(* number is in SwitchAt.                                                  *)
(* Frames come every TempoFrameMs; the first pulse is on frame LeadIn and  *)
(* MaxTempoPulses pulses are fed in all.  The source has three modes:      *)
(*   "sighted": both reads of a tick (lines 159 and 216) see the pulse;    *)
(*   "blind":   the pulse arrives between the two reads of its tick, so    *)
(*              the recheck read still sees silence;                       *)
(*   "ramped":  as sighted, and the frame before each pulse carries the    *)
(*              rising edge of the pulse, of Attack units.                 *)

TempoFrameMs == 50

LeadIn == 43

MaxTempoPulses == 23

Attack == 10

\* gaps of 50, 200, 300, 500 and 1000 ms at TempoFrameMs = 50
Gaps == {1, 4, 6, 10, 20}

Modes == {"sighted", "blind", "ramped"}

SwitchAt == {4, 6}

InitTempo ==
    /\ counter = NewBeatCounter
    /\ call = NoCall
    /\ ap = NewAudioProcessor
    /\ app = NewApp
    /\ now = 0
    /\ obs = NoObs
    /\ env \in [mode : Modes, first : Gaps, second : Gaps,
                 frames : {0}, due : {LeadIn}, pulses : {0},
                 switched : {FALSE}]

StartTempo ==
    /\ env.frames = 0
    /\ StartListening(TempoFrameMs, 0)
    /\ env' = [env EXCEPT !.frames = 1]

\* the frame about to come carries the rising edge of the next pulse
AttackDue == env.mode = "ramped" /\ env.frames + 1 = env.due - 1

TempoSilentFrame ==
    /\ env.frames >= 1
    /\ env.pulses < MaxTempoPulses
    /\ env.frames + 1 < env.due
    /\ ~AttackDue
    /\ Frame(TempoFrameMs, 0, 0)
    /\ env' = [env EXCEPT !.frames = @ + 1]

TempoAttackFrame ==
    /\ env.frames >= 1
    /\ env.pulses < MaxTempoPulses
    /\ AttackDue
    /\ Frame(TempoFrameMs, Attack, Attack)
    /\ env' = [env EXCEPT !.frames = @ + 1]

TempoPulseFrame ==
    /\ env.frames >= 1
    /\ env.pulses < MaxTempoPulses
    /\ env.frames + 1 = env.due
    /\ Frame(TempoFrameMs,
             IF env.mode = "blind" THEN 0 ELSE TrainPulse, TrainPulse)
    /\ env' = [env EXCEPT !.frames = @ + 1, !.pulses = @ + 1,
                          !.due = @ + (IF env.pulses % 2 = 0
                                       THEN env.first ELSE env.second)]

TempoSwitchFrame ==
    /\ env.frames >= 1
    /\ env.pulses < MaxTempoPulses
    /\ env.frames + 1 = env.due
    /\ env.first = env.second
    /\ ~env.switched
    /\ env.pulses + 1 \in SwitchAt
    /\ Frame(TempoFrameMs,
             IF env.mode = "blind" THEN 0 ELSE TrainPulse, TrainPulse)
    /\ \E gap \in Gaps \ {env.first} :
          env' = [env EXCEPT !.frames = @ + 1, !.pulses = @ + 1,
                             !.due = @ + gap, !.first = gap, !.second = gap,
                             !.switched = TRUE]

NextTempo ==
    \/ StartTempo
    \/ TempoSilentFrame
    \/ TempoAttackFrame
    \/ TempoPulseFrame
    \/ TempoSwitchFrame

SpecTempo == InitTempo /\ [][NextTempo]_vars

-----------------------------------------------------------------------------
(* SpecMalformed: SpecTempo with a host that may hand the processor, once  *)
(* and as the last tick of the run, a snapshot of zero bins                *)
(* (frequencyBinCount = 0).  The loops of lines 168-180 and 227-242 then   *)
(* run no iteration and energy / totalWeight is 0 / 0, which is NaN.       *)

\* the value of 0 / 0 (lines 181 and 244); no energy is negative otherwise
NaN == -1

\* lines 142-335 for a snapshot of zero bins.  Every comparison with NaN is
\* false: the recheck of line 186 does not trigger; line 246 pushes NaN onto
\* the energy history; with a full window (line 252) detectBeat runs, its
\* average is NaN, the silence gate of line 347 does not return,
\* hasSignificantEnergy is false and line 410 stores NaN as the previous
\* energy.
processAudioEmpty(p, t) ==
    IF ~p.analyser
    THEN [ap |-> p, beats |-> << >>, bpms |-> << >>]
    ELSE LET p1 == [p EXCEPT !.energyHistory = Push(@, NaN, historySize)]
         IN  [ ap |-> [p1 EXCEPT !.previousEnergy =
                                     IF ColdStart(p1.energyHistory)
                                     THEN @ ELSE NaN,
                                 !.animationFrameId = TRUE],
               beats |-> << >>, bpms |-> << >> ]

EmptyFrame ==
    /\ env.mode \in Modes
    /\ ap.analyser
    /\ ap.animationFrameId
    /\ \E r \in {processAudioEmpty(ap, now + TempoFrameMs)} :
          /\ ap' = r.ap
          /\ obs' = [obs EXCEPT !.op = "empty", !.beats = r.beats,
                                !.bpms = r.bpms, !.recheck = NaN,
                                !.energy = NaN,
                                !.before = ap.energyHistory, !.pre = ap,
                                !.tick = now + TempoFrameMs,
                                !.strong = FALSE]
    /\ now' = now + TempoFrameMs
    /\ app' = FireTimers(app, now + TempoFrameMs)
    /\ env' = [env EXCEPT !.mode = "malformed"]
    /\ UNCHANGED <<counter, call>>

WellFormedFrame == env.mode \in Modes /\ NextTempo

NextMalformed == WellFormedFrame \/ EmptyFrame

SpecMalformed == InitTempo /\ [][NextMalformed]_vars

-----------------------------------------------------------------------------
(* SpecAccept: detectBeat applied once to a processor that never accepted  *)
(* a beat, for every full energy window of a bounded family.  The window   *)
(* is what line 253 finds: OlderSamples - k samples of level a, k samples  *)
(* of level b, the sample of the tick before and, last, the sample e of    *)
(* this tick (pushed at line 247).  The previous energy is the sample of   *)
(* the tick before, or 0 on the first tick with a full window, when        *)
(* detectBeat has not run yet.                                             *)

OlderSamples == historySize - 2

WindowLevels == {0, 1, 20, 60}

PreviousLevels == {0, 1, 18, 20, 60}

CurrentLevels == {0, 1, 2, 3, 21, 22, 60, 61}

AcceptTime == 1000

\* k copies of x
Repeat(x, k) == [i \in 1..k |-> x]

InitAccept ==
    /\ counter = NewBeatCounter
    /\ call = NoCall
    /\ app = NewApp
    /\ now = AcceptTime
    /\ obs = NoObs
    /\ env \in [ e : CurrentLevels, done : {FALSE}, detected : {FALSE} ]
    /\ \E a \in WindowLevels, b \in WindowLevels, k \in 0..OlderSamples,
          c \in PreviousLevels, first \in BOOLEAN :
          ap = [NewAudioProcessor EXCEPT
                   !.analyser = TRUE,
                   !.animationFrameId = TRUE,
                   !.energyHistory = Repeat(a, OlderSamples - k)
                                     \o Repeat(b, k) \o <<c, env.e>>,
                   !.previousEnergy = IF first THEN 0 ELSE c]

\* line 253: this.detectBeat(energy)
DetectBeat ==
    /\ ~env.done
    /\ \E d \in {detectBeat(ap, env.e, now)} :
          /\ ap' = d.ap
          /\ env' = [env EXCEPT !.done = TRUE, !.detected = d.detected]
    /\ obs' = [obs EXCEPT !.op = "detectBeat", !.pre = ap,
                          !.before = ap.energyHistory, !.energy = env.e,
                          !.tick = now]
    /\ UNCHANGED <<counter, call, app, now>>

NextAccept == DetectBeat

SpecAccept == InitAccept /\ [][NextAccept]_vars

-----------------------------------------------------------------------------
(* SpecDetector: one AudioProcessor object driven through its public       *)
(* methods, its callbacks recorded and nothing else done with them, or     *)
(* calling stop() on the processor.  The display delivers a frame every    *)
(* TempoFrameMs; every DetGap-th frame of the world carries a pulse of     *)
(* TrainPulse units, the others carry silence.  In mode "blind" the pulse  *)
(* arrives between the two reads of its tick.                              *)
(* env.pending: a start() awaits getUserMedia (line 60);                   *)
(* env.loops:   the frame callbacks requested and not yet run or           *)
(*              cancelled: each start() that resumes begins a chain of its *)
(*              own, and all chains run in every frame;                    *)
(* env.stopped: stop() has been called and start() has not been called     *)
(*              since;                                                     *)
(* env.twin:    a processor constructed at the last start() call that      *)
(*              followed a stop(), started with it and given the same      *)
(*              snapshots at the same times (env.twinOn: there is one);    *)
(* env.out, env.twinOut: what the last step delivered to the callbacks of  *)
(*              the processor and of the twin.                             *)
(* Methods are called from outside right after a pulse frame, at most      *)
(* MaxDetStarts start() and MaxDetStops stop() calls in all, and           *)
(* getUserMedia resolves before the next display frame.                    *)

DetGap == 10

MaxDetFrames == 135

MaxDetStarts == 2

MaxDetStops == 1

DetModes == {"sighted", "blind"}

\* the nine detection fields of lines 26-44, without the audio nodes
Detection(p) == [p EXCEPT !.analyser = FALSE, !.animationFrameId = FALSE]

NoOutput == [beats |-> << >>, bpms |-> << >>]

\* the n chains of frame callbacks of one display frame at time t, run one
\* after the other (lines 142-335, n times)
RECURSIVE Ticks(_, _, _, _, _)
Ticks(p, n, t, recheck, energy) ==
    IF n = 0 THEN [ap |-> p, beats |-> << >>, bpms |-> << >>]
    ELSE LET first == processAudio(p, t, recheck, energy)
             others == Ticks(first.ap, n - 1, t, recheck, energy)
         IN  [ ap |-> others.ap,
               beats |-> first.beats \o others.beats,
               bpms |-> first.bpms \o others.bpms ]

InitDetector ==
    /\ counter = NewBeatCounter
    /\ call = NoCall
    /\ ap = NewAudioProcessor
    /\ app = NewApp
    /\ now = 0
    /\ obs = NoObs
    /\ env \in [ mode : DetModes, frames : {0}, pending : {FALSE},
                 loops : {0}, stopped : {FALSE}, starts : {0}, stops : {0},
                 twin : {NewAudioProcessor}, twinOn : {FALSE},
                 out : {NoOutput}, twinOut : {NoOutput},
                 thrown : {FALSE} ]

\* the moments at which the methods are called from outside
DetControl == env.frames % DetGap = 0

\* start(), lines 53-60: up to the await of getUserMedia
DetStartCall ==
    /\ DetControl
    /\ ~env.pending
    /\ env.starts < MaxDetStarts
    /\ env' = [env EXCEPT !.pending = TRUE, !.starts = @ + 1,
                          !.stopped = FALSE,
                          !.twinOn = env.stopped,
                          !.twin = NewAudioProcessor,
                          !.out = NoOutput, !.twinOut = NoOutput]
    /\ obs' = [obs EXCEPT !.op = "startCall", !.beats = << >>,
                          !.bpms = << >>]
    /\ UNCHANGED <<counter, call, ap, app, now>>

\* start(), lines 69-97: getUserMedia has resolved; the nodes are created
\* and processAudio() runs for the first time
DetStartResume ==
    /\ env.pending
    /\ \E r \in {processAudio(start(ap), now, 0, 0)} :
       \E tw \in {processAudio(start(env.twin), now, 0, 0)} :
          /\ ap' = r.ap
          /\ obs' = Observed(obs, "start", start(ap), now, r, 0, 0)
          /\ env' = [env EXCEPT
                        !.pending = FALSE,
                        !.loops = @ + 1,
                        !.twin = IF env.twinOn THEN tw.ap ELSE @,
                        !.out = [beats |-> r.beats, bpms |-> r.bpms],
                        !.twinOut = IF env.twinOn
                                    THEN [beats |-> tw.beats,
                                          bpms |-> tw.bpms]
                                    ELSE NoOutput]
    /\ UNCHANGED <<counter, call, app, now>>

\* stop() called from outside, between two ticks (lines 104-140):
\* cancelAnimationFrame takes the frame last requested out of the queue
DetStop ==
    /\ DetControl
    /\ env.starts >= 1
    /\ env.stops < MaxDetStops
    /\ ap' = stop(ap)
    /\ env' = [env EXCEPT !.stops = @ + 1, !.stopped = TRUE,
                          !.loops = IF ap.animationFrameId /\ @ > 0
                                    THEN @ - 1 ELSE @,
                          !.twinOn = FALSE,
                          !.out = NoOutput, !.twinOut = NoOutput]
    /\ obs' = [obs EXCEPT !.op = "stop", !.beats = << >>, !.bpms = << >>]
    /\ UNCHANGED <<counter, call, app, now>>

\* the two reads of the frame about to come
DetRecheck ==
    IF (env.frames + 1) % DetGap = 0 /\ env.mode = "sighted"
    THEN TrainPulse ELSE 0

DetEnergy == IF (env.frames + 1) % DetGap = 0 THEN TrainPulse ELSE 0

\* a display frame: every requested frame callback runs; one that finds no
\* analyser returns at line 143 and requests nothing
DetFrame ==
    /\ env.frames < MaxDetFrames
    /\ env.starts >= 1
    /\ ~env.pending
    /\ \E r \in {Ticks(ap, env.loops, now + TempoFrameMs,
                       DetRecheck, DetEnergy)} :
       \E tw \in {processAudio(env.twin, now + TempoFrameMs,
                               DetRecheck, DetEnergy)} :
          /\ ap' = r.ap
          /\ obs' = Observed(obs, "frame", ap, now + TempoFrameMs, r,
                            DetRecheck, DetEnergy)
          /\ env' = [env EXCEPT
                        !.frames = @ + 1,
                        !.loops = IF ap.analyser THEN @ ELSE 0,
                        !.twin = IF env.twinOn THEN tw.ap ELSE @,
                        !.out = [beats |-> r.beats, bpms |-> r.bpms],
                        !.twinOut = IF env.twinOn
                                    THEN [beats |-> tw.beats,
                                          bpms |-> tw.bpms]
                                    ELSE NoOutput]
    /\ now' = now + TempoFrameMs
    /\ UNCHANGED <<counter, call, app>>

\* a display frame whose tick invokes a callback that calls stop()
DetFrameStopping ==
    /\ env.frames < MaxDetFrames
    /\ ~env.pending
    /\ env.loops = 1
    /\ env.stops < MaxDetStops
    /\ \E at \in {"onBeat", "onBPMUpdate"} :
       \E r \in {processAudioStopping(ap, now + TempoFrameMs,
                                      DetRecheck, DetEnergy, at)} :
          /\ r.stopped
          /\ ap' = r.ap
          /\ obs' = Observed(obs, at, ap, now + TempoFrameMs, r,
                            DetRecheck, DetEnergy)
          /\ env' = [env EXCEPT
                        !.frames = @ + 1,
                        !.stops = @ + 1,
                        !.stopped = TRUE,
                        !.loops = IF r.thrown THEN 0 ELSE 1,
                        !.thrown = r.thrown,
                        !.twinOn = FALSE,
                        !.out = [beats |-> r.beats, bpms |-> r.bpms],
                        !.twinOut = NoOutput]
    /\ now' = now + TempoFrameMs
    /\ UNCHANGED <<counter, call, app>>

NextDetector ==
    \/ DetStartCall
    \/ DetStartResume
    \/ DetStop
    \/ DetFrame
    \/ DetFrameStopping

SpecDetector == InitDetector /\ [][NextDetector]_vars

-----------------------------------------------------------------------------
(* SpecSession: the App's sessions (src/unnamed/part_001, lines 84-152).   *)
(* Every startListening constructs an AudioProcessor of its own (line 87)  *)
(* and awaits its start(); the Start button is shown, and enabled, while   *)
(* isListening is false, which it still is during that await.  A processor *)
(* is "pending" while its start() awaits the microphone, "running" from    *)
(* then until its stop(), and a running processor may deliver a Beat Event *)
(* or a tempo on any tick.  env.procs holds the processors in the order of *)
(* their construction, env.ref the index of the one in audioProcessorRef   *)
(* (0: null), env.leaked the due times of the no-music timers whose handle *)
(* was overwritten while they were scheduled, env.quiet that stopListening *)
(* has run and startListening has not been invoked since.                  *)

MaxSessionStarts == 2

SessionStep == 1000

MaxSessionTicks == 6

MaxSessionBeats == 2

InitSession ==
    /\ counter = NewBeatCounter
    /\ call = NoCall
    /\ ap = NewAudioProcessor
    /\ app = NewApp
    /\ now = 0
    /\ obs = NoObs
    /\ env = [ procs |-> << >>, ref |-> 0, mounted |-> TRUE,
               leaked |-> {}, quiet |-> FALSE, ticks |-> 0, beats |-> 0 ]

Running == {i \in DOMAIN env.procs : env.procs[i] = "running"}

\* lines 84-92: startListening up to the await of processor.start()
SessionStartCall ==
    /\ env.mounted
    /\ ~app.isListening
    /\ Len(env.procs) < MaxSessionStarts
    /\ env' = [env EXCEPT !.procs = Append(@, "pending"), !.quiet = FALSE]
    /\ UNCHANGED <<counter, call, ap, app, now, obs>>

\* lines 92-109: start() of processor i has resolved and startListening
\* carries on; line 105 overwrites the handle of a timer still scheduled
SessionStartResume(i) ==
    /\ env.procs[i] = "pending"
    /\ \E st \in {Listening([app |-> app, counter |-> counter,
                             call |-> call], now)} :
          /\ app' = st.app
          /\ counter' = st.counter
          /\ call' = st.call
    /\ env' = [env EXCEPT !.procs[i] = "running", !.ref = i,
                          !.leaked = IF app.noMusicTimerRef > now
                                     THEN @ \cup {app.noMusicTimerRef}
                                     ELSE @]
    /\ UNCHANGED <<ap, now, obs>>

\* lines 117-138: stopListening, from the Stop button
SessionStop ==
    /\ env.mounted
    /\ app.isListening
    /\ app' = Stopped(app)
    /\ env' = [env EXCEPT
                  !.procs = [i \in DOMAIN @ |->
                                IF i = env.ref THEN "stopped" ELSE @[i]],
                  !.ref = 0, !.quiet = TRUE]
    /\ UNCHANGED <<counter, call, ap, now, obs>>

\* lines 140-152: the cleanup of the effect, run at unmount
SessionUnmount ==
    /\ env.mounted
    /\ app' = [app EXCEPT !.noMusicTimerRef = 0, !.musicStoppedTimerRef = 0]
    /\ env' = [env EXCEPT
                  !.procs = [i \in DOMAIN @ |->
                                IF i = env.ref THEN "stopped" ELSE @[i]],
                  !.mounted = FALSE]
    /\ UNCHANGED <<counter, call, ap, now, obs>>

\* onBeat of the running processor i (lines 29-78)
SessionBeat(i, downbeat) ==
    /\ env.mounted
    /\ i \in Running
    /\ env.beats < MaxSessionBeats
    /\ \E st \in {handleBeat([app |-> app, counter |-> counter,
                              call |-> call],
                             BeatResult(downbeat, now, 60, "main", << >>),
                             now)} :
          /\ app' = st.app
          /\ counter' = st.counter
          /\ call' = st.call
    /\ env' = [env EXCEPT !.beats = @ + 1]
    /\ UNCHANGED <<ap, now, obs>>

\* onBPMUpdate of the running processor i (lines 80-82)
SessionBPMUpdate(i, newBPM) ==
    /\ env.mounted
    /\ i \in Running
    /\ app.bpm # newBPM
    /\ app' = [app EXCEPT !.bpm = newBPM]
    /\ UNCHANGED <<counter, call, ap, now, obs, env>>

\* lines 105-109 for a timer whose handle is lost
LeakedNoMusicTimeout(a) ==
    [a EXCEPT !.noMusicDetected = IF a.hasDetectedBeatRef THEN @ ELSE TRUE]

\* SessionStep ms pass and the timers due by then run
SessionTick ==
    /\ env.ticks < MaxSessionTicks
    /\ now' = now + SessionStep
    /\ app' = IF \E due \in env.leaked : due <= now + SessionStep
              THEN LeakedNoMusicTimeout(FireTimers(app, now + SessionStep))
              ELSE FireTimers(app, now + SessionStep)
    /\ env' = [env EXCEPT !.ticks = @ + 1,
                          !.leaked = {due \in @ : due > now + SessionStep}]
    /\ UNCHANGED <<counter, call, ap, obs>>

NextSession ==
    \/ SessionStartCall
    \/ \E i \in DOMAIN env.procs : SessionStartResume(i)
    \/ SessionStop
    \/ SessionUnmount
    \/ \E i \in DOMAIN env.procs, downbeat \in BOOLEAN :
          SessionBeat(i, downbeat)
    \/ \E i \in DOMAIN env.procs : SessionBPMUpdate(i, 120)
    \/ SessionTick

SpecSession == InitSession /\ [][NextSession]_vars

-----------------------------------------------------------------------------
(* The tracker driven directly: any updateBeat / getState / reset call.    *)
(* `call` records the call, the state it found and what it returned.       *)

InitTracker ==
    /\ counter = NewBeatCounter
    /\ call = NoCall
    /\ ap = NewAudioProcessor
    /\ app = NewApp
    /\ now = 0
    /\ obs = NoObs
    /\ env = [bg |-> 0, frames |-> 0, free |-> 0, starts |-> 0]

rest == <<ap, app, now, env, obs>>

\* `k` counts the updateBeat calls since construction or reset, `hadPrev`
\* says there was one before this call and `prevTimestamp` is the timestamp
\* it was given, `pre` is the tracker as the call found it; `irregular`
\* counts the calls made since the pattern was left; `regular`
\* says that so far the hint was true exactly on calls 0, 8, 16, ... and no
\* two consecutive timestamps were more than maxInterval apart.
UpdateBeat(hint, timestamp, bpm) ==
    /\ call.k < MaxEvents
    /\ call.dirty => call.k < MaxReplay
    /\ (Recorded(call, counter, hint, timestamp, bpm).regular
          \/ call.irregular < MaxIrregular)
    /\ counter' = updateBeat(counter, hint, timestamp, bpm)
    /\ call' = Recorded(call, counter, hint, timestamp, bpm)
    /\ UNCHANGED rest

GetState ==
    /\ counter' = counter
    /\ call' = [call EXCEPT !.op = "getState", !.pre = counter,
                            !.ret = getState(counter)]
    /\ UNCHANGED rest

Reset ==
    /\ counter' = reset(counter)
    /\ call' = AfterReset(call, counter)
    /\ UNCHANGED rest

NextTracker ==
    \/ \E hint \in BOOLEAN, timestamp \in Timestamps, bpm \in BpmHints :
          UpdateBeat(hint, timestamp, bpm)
    \/ GetState
    \/ Reset

SpecTracker == InitTracker /\ [][NextTracker]_vars

-----------------------------------------------------------------------------
(* Claims about the Cycle Tracker, checked under SpecTracker.              *)

Returned == call.op \in {"updateBeat", "getState"}

\* C1: every state returned by updateBeat or getState, after any sequence of
\* updateBeat, reset and getState calls, has currentBeat in 1..8, and its
\* isDashBeat is true exactly when currentBeat is 4 or 8.
C1_DisplayRange ==
    Returned =>
        /\ call.ret.currentBeat \in 1..8
        /\ call.ret.isDashBeat <=> call.ret.currentBeat \in {4, 8}

\* the position wraps from display 8 back to display 1 on a plain beat
C1_Witness ==
    /\ call.op = "updateBeat"
    /\ ~call.isDownbeat
    /\ call.pre.currentBeat = 7
    /\ ~TimedOut(call.pre, call.timestamp)
    /\ call.ret.currentBeat = 1

\* C2: the isDownbeat flag returned by updateBeat equals the hint passed in,
\* and whenever it is true the returned currentBeat is 1: the "hint and not
\* dash" suppression never changes the result.
C2_DownbeatIsHint ==
    call.op = "updateBeat" =>
        /\ call.ret.isDownbeat = call.isDownbeat
        /\ call.ret.isDownbeat => call.ret.currentBeat = 1

\* a true hint arrives while the tracker stands just before a dash position
C2_Witness ==
    /\ call.op = "updateBeat"
    /\ call.isDownbeat
    /\ call.pre.currentBeat \in {2, 6}
    /\ ~TimedOut(call.pre, call.timestamp)
    /\ call.ret.isDownbeat

\* position and cycle after the transition of lines 48-56 from (pos, cyc)
TransitionFrom(pos, cyc, hint) ==
    IF hint
    THEN [currentBeat |-> 0, cycle |-> cyc + 1]
    ELSE [currentBeat |-> (pos + 1) % 8, cycle |-> cyc]

\* C4: whenever updateBeat is called with a timestamp more than 3000 ms after
\* the timestamp of the previously processed beat, position and cycle are
\* zeroed before the transition is applied, whatever the prior state; with a
\* gap of at most 3000 ms the transition starts from the prior state.
C4_TimeoutReset ==
    (call.op = "updateBeat" /\ call.hadPrev) =>
        LET gap  == call.timestamp - call.prevTimestamp
            want == IF gap > 3000
                    THEN TransitionFrom(0, 0, call.isDownbeat)
                    ELSE TransitionFrom(call.pre.currentBeat, call.pre.cycle,
                                        call.isDownbeat)
        IN  /\ counter.currentBeat = want.currentBeat
            /\ counter.cycle = want.cycle

\* C4 restricted to a previous beat whose timestamp is positive: this part
\* of the statement holds (the code reads lastBeatTime = 0 as "no beat yet").
C4_TimeoutResetAfterPositive ==
    (call.op = "updateBeat" /\ call.hadPrev /\ call.prevTimestamp > 0) =>
        LET gap  == call.timestamp - call.prevTimestamp
            want == IF gap > 3000
                    THEN TransitionFrom(0, 0, call.isDownbeat)
                    ELSE TransitionFrom(call.pre.currentBeat, call.pre.cycle,
                                        call.isDownbeat)
        IN  /\ counter.currentBeat = want.currentBeat
            /\ counter.cycle = want.cycle

\* C6: fed with hints that are true exactly on events 0, 8, 16, ... and with
\* no gap above 3000 ms between consecutive timestamps, the k-th result
\* (k from 0 after reset) has currentBeat = (k mod 8) + 1 and
\* cycle = floor(k / 8) + 1.
C6_EightCount ==
    (call.op = "updateBeat" /\ call.regular) =>
        /\ call.ret.currentBeat = ((call.k - 1) % 8) + 1
        /\ call.ret.cycle = ((call.k - 1) \div 8) + 1

\* the 17th regular event opens the third cycle, and a gap of exactly
\* 3000 ms lies behind it
C6_Witness ==
    /\ call.op = "updateBeat"
    /\ call.regular
    /\ call.k = 17
    /\ call.timestamp - call.prevTimestamp = maxInterval
    /\ call.prevTimestamp > 0
    /\ call.ret.cycle = 3
    /\ call.ret.currentBeat = 1

\* the call found a last-beat time and the timestamp is more than 3000 ms
\* after it
CallTimedOut ==
    /\ call.pre.lastBeatTime > 0
    /\ call.timestamp - call.pre.lastBeatTime > 3000

\* C31: an updateBeat call to which no timeout applies increases the cycle
\* by 1, sets the position to 0 and records the timestamp as cycle start on a
\* true hint, and on a false hint sets the position to (position + 1) mod 8
\* and leaves cycle and cycle start alone; either way the last-beat time
\* becomes the timestamp.  The cycle changes only on a true hint, a timeout
\* or reset.
C31_Transition ==
    /\ (call.op = "updateBeat" /\ ~CallTimedOut) =>
          /\ call.isDownbeat =>
                /\ counter.cycle = call.pre.cycle + 1
                /\ counter.currentBeat = 0
                /\ counter.cycleStartTime = call.timestamp
          /\ ~call.isDownbeat =>
                /\ counter.currentBeat = (call.pre.currentBeat + 1) % 8
                /\ counter.cycle = call.pre.cycle
                /\ counter.cycleStartTime = call.pre.cycleStartTime
          /\ counter.lastBeatTime = call.timestamp
    /\ (call.op # "none" /\ counter.cycle # call.pre.cycle) =>
          \/ call.op = "reset"
          \/ call.op = "updateBeat" /\ (call.isDownbeat \/ CallTimedOut)

\* a true hint that closes a full cycle, and a false hint that wraps
C31_Witness ==
    /\ call.op = "updateBeat"
    /\ ~CallTimedOut
    /\ call.isDownbeat
    /\ call.pre.currentBeat = 7
    /\ call.pre.cycle = 1
    /\ call.pre.cycleStartTime # call.timestamp
    /\ counter.cycle = 2

\* the part of the tracker that the count is made of
Position(c) ==
    [ currentBeat |-> c.currentBeat, cycle |-> c.cycle,
      lastBeatTime |-> c.lastBeatTime, cycleStartTime |-> c.cycleStartTime ]

\* C32: a run given bpm hints (zero, negative, or changing by more than
\* 10 %) and a run given the same (isDownbeat, timestamp) events without any
\* hint return the same currentBeat, cycle, isDownbeat and isDashBeat on
\* every call; a hint changes only the stored BPM and the expected beat
\* interval.
C32_HintNonInterference ==
    /\ Position(counter) = Position(call.plain)
    /\ call.op = "updateBeat" =>
          /\ call.ret = UpdateResult(call.plain, call.isDownbeat)
          /\ Position(counter)
                = Position(updateBeat(call.pre, call.isDownbeat,
                                      call.timestamp, 0))
    /\ getState(counter) = getState(call.plain)

\* a hint 20 % above the stored BPM, in the middle of the second cycle
C32_Witness ==
    /\ call.op = "updateBeat"
    /\ call.pre.currentBPM = 100
    /\ call.bpm = 120
    /\ counter.currentBPM = 120
    /\ call.plain.currentBPM = 0
    /\ call.pre.cycle = 2
    /\ call.pre.currentBeat = 3
    /\ ~call.isDownbeat

\* what the query is to return for a tracker c with a tempo, by whether a
\* cycle is underway
ExpectedNextBeatTime(c, underway) ==
    IF underway
    THEN c.cycleStartTime + (c.currentBeat + 1) * (60000 \div c.currentBPM)
    ELSE c.lastBeatTime + 60000 \div c.currentBPM

\* C33: getExpectedNextBeatTime returns null while no positive tempo hint has
\* been supplied since construction or reset; otherwise it returns
\* lastBeatTime + 60000/bpm when no cycle has started and
\* cycleStartTime + (position + 1) * 60000/bpm once a downbeat has been
\* processed since the last reset or timeout.
C33_NextBeatQuery ==
    /\ ~call.hinted => getExpectedNextBeatTime(counter).null
    /\ call.hinted =>
          /\ ~getExpectedNextBeatTime(counter).null
          /\ getExpectedNextBeatTime(counter).time
                = ExpectedNextBeatTime(counter, call.underway)

\* the same, for cycles that did not start at timestamp 0
C33_NextBeatQueryAfterPositive ==
    /\ ~call.hinted => getExpectedNextBeatTime(counter).null
    /\ (call.hinted /\ (call.underway => counter.cycleStartTime # 0)) =>
          /\ ~getExpectedNextBeatTime(counter).null
          /\ getExpectedNextBeatTime(counter).time
                = ExpectedNextBeatTime(counter, call.underway)

\* C16: after reset() the tracker equals a freshly constructed one in every
\* field, so the tracker fed any events after a reset is in the state of,
\* and answers updateBeat, getState and getExpectedNextBeatTime as, a fresh
\* tracker fed the same events, whatever happened before the reset.
C16_ResetIsFresh ==
    /\ call.op = "reset" => counter = NewBeatCounter
    /\ counter = call.fresh
    /\ call.op = "updateBeat" =>
          call.ret = UpdateResult(call.fresh, call.isDownbeat)
    /\ getState(counter) = getState(call.fresh)
    /\ getExpectedNextBeatTime(counter) = getExpectedNextBeatTime(call.fresh)

\* two events with a tempo hint after a reset that found a tempo, a cycle and
\* a position
C16_Witness ==
    /\ call.dirty
    /\ call.op = "updateBeat"
    /\ call.k = 2
    /\ call.bpm = 120
    /\ ~getExpectedNextBeatTime(counter).null
    /\ counter.cycle = 1

-----------------------------------------------------------------------------
(* Claims about the Beat Detector under the free signal, checked under     *)
(* Spec.                                                                   *)

\* C7: while every energy snapshot since the start has been at or below the
\* minimum floor (one unit), no Beat Event has been delivered, by the main
\* path or by the predictive path, however many ticks were processed.
C7_NoBeatAtFloor ==
    ~obs.loud => (obs.emitted = 0 /\ ap.beatCount = 0)

\* a full window of snapshots none of which is above the floor, the last one
\* above the silent average of those before it, and no beat
C7_Witness ==
    /\ obs.op = "frame"
    /\ ~obs.loud
    /\ Len(obs.before) = historySize
    /\ obs.energy = 1
    /\ Sum(obs.before) = 0
    /\ obs.emitted = 0

\* C9: the energy history never holds more than 43 entries, and no Beat Event
\* is delivered on a tick at whose end the history holds fewer than 43
\* entries, counted from the start of the processor.
C9_ColdStart ==
    /\ Len(ap.energyHistory) <= historySize
    /\ Len(ap.energyHistory) < historySize => obs.beats = << >>

\* a loud snapshot over a silent background arrives while the window is
\* still filling after a restart, and nothing is delivered
C9_Witness ==
    /\ obs.op = "frame"
    /\ env.starts = 2
    /\ Len(ap.energyHistory) = EarlyFrame + 1
    /\ env.bg = 0
    /\ obs.energy = 60
    /\ obs.beats = << >>

\* C10: any two consecutively delivered Beat Events, predictive or main
\* path, have timestamps at least the debounce interval apart (150..300 ms,
\* 200 ms by default), computed from the beat history the second one found.
C10_Debounce ==
    \A i \in 1..Len(obs.beats) : ~obs.beats[i].tooSoon

-----------------------------------------------------------------------------
(* Claims about the Beat Detector and the composition, checked under       *)
(* SpecTrain.                                                              *)

\* C3: every delivered Beat Event has downbeat true if and only if the number
\* of events delivered before it since the start is a multiple of 8, and the
\* detector's counter is the number of delivered events: one more for every
\* delivered beat of either path, and nothing else moves it.
C3_DownbeatEveryEighth ==
    /\ \A i \in 1..Len(obs.beats) :
          obs.beats[i].downbeat <=> (obs.beats[i].index % 8 = 0)
    /\ ap.beatCount = obs.emitted

\* the ninth delivered event is a downbeat of the predictive path, after a
\* pulse that only the main path saw
C3_Witness ==
    /\ Len(obs.beats) = 1
    /\ obs.beats[1].index = 8
    /\ obs.beats[1].downbeat
    /\ obs.beats[1].path = "predictive"
    /\ env.misses = 1

\* the pulse after the silence has just been delivered to the tracker
AfterSilence ==
    /\ env.phase = "done"
    /\ env.pulses = 16
    /\ env.restLen = LongRest
    /\ obs.emitted = 17
    /\ Len(obs.beats) = 1
    /\ call.op = "updateBeat"
    /\ call.timestamp = obs.beats[1].timestamp

\* C5: after 16 accepted pulses, a silence of 4 seconds and one more accepted
\* pulse, the Cycle State produced for that pulse has display position 1 and
\* cycle 1: the cycle index was reset over the silence.
C5_RestartAfterSilence ==
    AfterSilence =>
        /\ call.ret.currentBeat = 1
        /\ call.ret.cycle = 1
        /\ call.ret.isDownbeat

\* the tracker stood at position 8 of its second cycle before the silence
C5_Witness ==
    /\ AfterSilence
    /\ call.k = 17
    /\ call.pre.currentBeat = 7
    /\ call.pre.cycle = 2
    /\ call.timestamp - call.prevTimestamp > 4000
    /\ call.ret.cycle = 1

\* C8: on a tick where the energy history is full and its average is below
\* the floor, both as the tick finds it and as the tick leaves it, no Beat
\* Event is delivered during that tick, by either path.
C8_SilenceGate ==
    ( /\ obs.op = "frame"
      /\ Len(obs.before) = historySize
      /\ Silent(obs.before)
      /\ Len(ap.energyHistory) = historySize
      /\ Silent(ap.energyHistory) )
    => obs.beats = << >>

\* C15: after 20 pulses exactly 500 ms apart over a background of 0, every
\* tick reading the pulse twice, the stabilized tempo is established and
\* within 120 +/- 2, and all 20 pulses were delivered (so that the events
\* 0, 8 and 16 were the downbeats).
C15_TempoConverges ==
    ( /\ env.phase = "play"
      /\ env.pulses = 20
      /\ env.misses = 0
      /\ PulseEvery * TrainFrameMs = 500 )
    => /\ obs.emitted = 20
       /\ ap.currentStableBPM >= 118 * 1000
       /\ ap.currentStableBPM <= 122 * 1000

-----------------------------------------------------------------------------
(* Claims about bursts, dedup, tempo and the bounded histories, checked    *)
(* under SpecTempo.                                                        *)

\* C11: of two pulses that each pass the threshold test and whose ticks are
\* less than 150 ms apart only one is delivered: a tick that delivers a Beat
\* Event for such a pulse comes at least 150 ms after the last tick that did.
C11_OneBeatPerBurst ==
    ( /\ obs.beats # << >>
      /\ obs.strong
      /\ obs.prevTick > 0
      /\ obs.prevStrong )
    => obs.tick - obs.prevTick >= 150

\* C12: a main-path detection less than 150 ms after a predictive trigger,
\* the same tick included, delivers nothing, and neither does a second
\* predictive trigger: no tick delivers more than one Beat Event, the beat
\* counter advances by the number delivered, and the tick's energy sample is
\* appended to the energy history all the same.
C12_PredictiveMainDedup ==
    obs.op = "frame" =>
        /\ Len(obs.beats) <= 1
        /\ obs.beats # << >> =>
              \/ obs.pre.lastPredictedBeatTime = 0
              \/ obs.tick - obs.pre.lastPredictedBeatTime >= 150
        /\ ap.beatCount = obs.pre.beatCount + Len(obs.beats)
        /\ ap.energyHistory # << >>
        /\ ap.energyHistory[Len(ap.energyHistory)] = obs.energy

\* the main path detects a beat (its time enters the beat history) one tick
\* after the predictive trigger for the same pulse, and nothing is delivered
C12_Witness ==
    /\ obs.op = "frame"
    /\ obs.tick - ap.lastPredictedBeatTime = TempoFrameMs
    /\ obs.strong
    /\ ap.beatHistory # << >>
    /\ ap.beatHistory[Len(ap.beatHistory)] = obs.tick
    /\ obs.beats = << >>
    /\ obs.prevTick = ap.lastPredictedBeatTime
    /\ ap.energyHistory[Len(ap.energyHistory)] = TrainPulse

\* C13: once the stabilized tempo is established (non-zero) it stays
\* established and within [60, 200] after every tick, and every value passed
\* to onBPMUpdate or returned by getBPM while established is in 60..200.
\* (The tempo is kept in 1/1000 BPM.)
C13_TempoRange ==
    /\ ap.currentStableBPM # 0 =>
          /\ ap.currentStableBPM >= 60 * 1000
          /\ ap.currentStableBPM <= 200 * 1000
          /\ getBPM(ap) \in 60..200
    /\ \A i \in 1..Len(obs.bpms) : obs.bpms[i] \in 60..200
    /\ (obs.op = "frame" /\ obs.pre.currentStableBPM # 0)
          => ap.currentStableBPM # 0

\* an established tempo at the upper end of the range is updated and reported
C13_Witness ==
    /\ obs.op = "frame"
    /\ obs.pre.currentStableBPM = 200 * 1000
    /\ ap.currentStableBPM = 200 * 1000
    /\ obs.bpms = << 200 >>
    /\ Len(ap.bpmHistory) >= 5

\* C14: a single update of an established stabilized tempo changes it by at
\* most 20% of the old value.
C14_SmoothingBound ==
    (obs.op = "frame" /\ obs.pre.currentStableBPM # 0) =>
        5 * Abs(ap.currentStableBPM - obs.pre.currentStableBPM)
            <= obs.pre.currentStableBPM

\* an update moves an established tempo by more than a tenth of its value
C14_Witness ==
    /\ obs.op = "frame"
    /\ obs.pre.currentStableBPM # 0
    /\ obs.bpms # << >>
    /\ 10 * Abs(ap.currentStableBPM - obs.pre.currentStableBPM)
           > obs.pre.currentStableBPM


\* C25: a predictive Beat Event is delivered only on a tick whose time lies
\* in the look-ahead window of the prediction the tick found:
\* predicted - 250 <= now <= predicted.
C25_LookAheadWindow ==
    \A i \in 1..Len(obs.beats) :
        obs.beats[i].path = "predictive" =>
            LET predicted == obs.pre.predictedNextBeatTime
            IN  /\ predicted.num > 0
                /\ (obs.tick + predictionOffset) * predicted.den
                      >= predicted.num
                /\ obs.tick * predicted.den <= predicted.num

\* C26: every predictive Beat Event carries the timestamp now + 250, and
\* that is the predicted next-beat time the tick found.
C26_PredictiveTimestamp ==
    \A i \in 1..Len(obs.beats) :
        obs.beats[i].path = "predictive" =>
            /\ obs.beats[i].timestamp = obs.tick + predictionOffset
            /\ obs.beats[i].timestamp * obs.pre.predictedNextBeatTime.den
                  = obs.pre.predictedNextBeatTime.num

\* C27: a predictive Beat Event is delivered only when the recheck energy
\* exceeds 1.05 times the average of the window the tick found and the
\* floor, and more than 100 ms after the previous predictive trigger.
C27_RetriggerGuard ==
    \A i \in 1..Len(obs.beats) :
        obs.beats[i].path = "predictive" =>
            /\ obs.beats[i].energy = obs.recheck
            /\ 100 * Len(obs.before) * obs.recheck > 105 * Sum(obs.before)
            /\ obs.recheck > 1
            /\ obs.tick - obs.pre.lastPredictedBeatTime > 100

\* a predictive trigger that follows an earlier one
C27_Witness ==
    /\ obs.op = "frame"
    /\ obs.beats # << >>
    /\ obs.beats[1].path = "predictive"
    /\ obs.pre.lastPredictedBeatTime > 0
    /\ ap.lastPredictedBeatTime = obs.tick

\* the outlier test of the tempo: sample bpm (in 1/1000 BPM) against the
\* BPM history and the stabilized tempo a tick found in p
IsOutlier(p, bpm) ==
    /\ Len(p.bpmHistory) >= 5
    /\ p.currentStableBPM # 0
    /\ 10 * Abs(bpm - p.currentStableBPM) > 4 * p.currentStableBPM

\* C28: a tick that delivers one Beat Event after the first, by either
\* path, samples the tempo from the time since the previous delivered
\* event: a sample in [60, 200] that is no outlier is appended to the BPM
\* history, and a sample outside [60, 200] leaves the BPM history and the
\* stabilized tempo as they were.
C28_TempoSampling ==
    (obs.op = "frame" /\ Len(obs.beats) = 1 /\ obs.beats[1].index > 0) =>
        LET gap == obs.beats[1].gap
            inRange == gap > 0 /\ 60 * gap <= 60000 /\ 200 * gap >= 60000
        IN  /\ (inRange /\ ~IsOutlier(obs.pre, (60000 * 1000) \div gap)) =>
                  ap.bpmHistory = Push(obs.pre.bpmHistory,
                                       (60000 * 1000) \div gap,
                                       bpmHistorySize)
            /\ ~inRange =>
                  /\ ap.bpmHistory = obs.pre.bpmHistory
                  /\ ap.currentStableBPM = obs.pre.currentStableBPM

\* C29: on a main-path beat whose sample lies in [60, 200], the sample is
\* left out of the BPM history exactly when the history holds at least 5
\* samples, the stabilized tempo is non-zero and the sample is more than 40 %
\* of the stabilized tempo away from it; otherwise it is appended.  The beat
\* of a rejected sample is delivered and counted all the same.
C29_OutlierRejection ==
    ( /\ obs.op = "frame"
      /\ Len(obs.beats) = 1
      /\ obs.beats[1].path = "main"
      /\ obs.beats[1].index > 0
      /\ obs.beats[1].gap > 0
      /\ 60 * obs.beats[1].gap <= 60000
      /\ 200 * obs.beats[1].gap >= 60000 ) =>
        LET bpm == (60000 * 1000) \div obs.beats[1].gap
        IN  /\ IsOutlier(obs.pre, bpm) =>
                  ap.bpmHistory = obs.pre.bpmHistory
            /\ ~IsOutlier(obs.pre, bpm) =>
                  ap.bpmHistory = Push(obs.pre.bpmHistory, bpm,
                                       bpmHistorySize)
            /\ ap.beatCount = obs.pre.beatCount + 1
            /\ ap.lastBeatTime = obs.beats[1].timestamp

\* a main-path beat whose sample is rejected as an outlier
C29_Witness ==
    /\ obs.op = "frame"
    /\ Len(obs.beats) = 1
    /\ obs.beats[1].path = "main"
    /\ obs.beats[1].gap > 0
    /\ 60 * obs.beats[1].gap <= 60000
    /\ 200 * obs.beats[1].gap >= 60000
    /\ IsOutlier(obs.pre, (60000 * 1000) \div obs.beats[1].gap)
    /\ ap.beatCount = obs.pre.beatCount + 1

\* x put into its place in the ascending sequence s
RECURSIVE Inserted(_, _)
Inserted(s, x) ==
    IF s = << >> THEN <<x>>
    ELSE IF x <= Head(s) THEN <<x>> \o s
    ELSE <<Head(s)>> \o Inserted(Tail(s), x)

RECURSIVE Ascending(_)
Ascending(s) ==
    IF s = << >> THEN << >> ELSE Inserted(Ascending(Tail(s)), Head(s))

\* the candidate tempo of a non-empty BPM history h (in 1/1000 BPM): the mean
\* of the sorted samples at the 0-based indices max(0, mid - 2) ..
\* min(n, mid + 3) - 1, mid = floor(n / 2), for n >= 5, the plain mean below
CandidateTempo(h) ==
    LET n == Len(h)
        mid == n \div 2
        from == IF mid - 2 > 0 THEN mid - 2 ELSE 0
        to == (IF mid + 3 < n THEN mid + 3 ELSE n) - 1
        window == [i \in 1..(to - from + 1) |-> Ascending(h)[from + i]]
    IN  IF n >= 5 THEN Sum(window) \div Len(window) ELSE Sum(h) \div n

\* a tick whose one Beat Event came by the main path with a sample in
\* [60, 200]
InRangeMainBeat ==
    /\ obs.op = "frame"
    /\ Len(obs.beats) = 1
    /\ obs.beats[1].path = "main"
    /\ obs.beats[1].index > 0
    /\ obs.beats[1].gap > 0
    /\ 60 * obs.beats[1].gap <= 60000
    /\ 200 * obs.beats[1].gap >= 60000

\* the stabilized tempo is the blend of the old one and the candidate of
\* the BPM history, and its rounded value was reported on this tick
TempoUpdated ==
    LET candidate == CandidateTempo(ap.bpmHistory)
        old == obs.pre.currentStableBPM
        new == IF old = 0 THEN candidate
               ELSE (8 * old + 2 * candidate) \div 10
    IN  /\ ap.currentStableBPM = new
        /\ obs.bpms = << (new + 500) \div 1000 >>

\* C30 as stated: after each main-path beat with a sample in [60, 200], for
\* any non-empty BPM history, the stabilized tempo is updated from the
\* candidate and its rounded value reported on that tick.
C30_TempoUpdate ==
    (InRangeMainBeat /\ Len(ap.bpmHistory) >= 1) => TempoUpdated

\* C30 as amended: the update and the report happen when the BPM history
\* holds at least 3 samples; with fewer the stabilized tempo stays as it was
\* and nothing is reported.
C30_TempoUpdateFromThree ==
    InRangeMainBeat =>
        /\ Len(ap.bpmHistory) >= 3 => TempoUpdated
        /\ Len(ap.bpmHistory) < 3 =>
              /\ ap.currentStableBPM = obs.pre.currentStableBPM
              /\ obs.bpms = << >>

\* an update of an established tempo from five or more samples whose middle
\* window does not have the mean of them all
C30_Witness ==
    /\ InRangeMainBeat
    /\ Len(ap.bpmHistory) >= 5
    /\ obs.pre.currentStableBPM # 0
    /\ CandidateTempo(ap.bpmHistory)
          # Sum(ap.bpmHistory) \div Len(ap.bpmHistory)
    /\ obs.bpms # << >>

\* C21: while the App listens, every Beat Event delivered through onBeat
\* has been passed to updateBeat, once and in emission order: the tracker
\* has made as many transitions since its reset as the detector has counted
\* beats, and its last call carried the last delivered event.
C21_DeliveredOnce ==
    app.isListening =>
        /\ call.k = ap.beatCount
        /\ obs.emitted > 0 =>
              /\ call.op = "updateBeat"
              /\ call.timestamp = obs.lastTimestamp

RECURSIVE IsqrtIn(_, _, _)
IsqrtIn(x, lo, hi) ==
    IF lo = hi THEN lo
    ELSE LET mid == (lo + hi + 1) \div 2
         IN  IF mid * mid <= x THEN IsqrtIn(x, mid, hi)
             ELSE IsqrtIn(x, lo, mid - 1)

Isqrt(x) == IsqrtIn(x, 0, 46340)

\* The accept rule as the specification words it, for a window of n samples
\* of sum S and sum of squares Q, energies in units of the floor 1.5:
\*   avg = S / n and sd = sqrt(n * Q - S * S) / n, so
\*   e > avg + 1.3 * sd  is  10 * (n * e - S) > 13 * sqrt(n * Q - S * S),
\*   which for whole numbers is  10 * (n * e - S) > Isqrt(169 * (n*Q - S*S));
\*   e > 1.08 * avg  is  100 * n * e > 108 * S;
\*   onset is  prev > 0  and  100 * (e - prev) >= 12 * prev.
AcceptReference(window, prev, e) ==
    LET n == Len(window)
        S == Sum(window)
        Q == SumSq(window)
        onset == IF prev = 0 THEN FALSE
                 ELSE 100 * (e - prev) >= 12 * prev
    IN  /\ e > 1
        /\ 10 * (n * e - S) > Isqrt(169 * (n * Q - S * S))
        /\ (onset \/ 100 * n * e > 108 * S)

\* C23: on a full window whose average is at least the floor, detectBeat
\* provisionally accepts the current energy exactly when the reference rule
\* does (floor, dynamic threshold, and onset or relative threshold), the
\* onset being false when the previous energy is 0.
C23_AcceptRule ==
    (env.done /\ Sum(obs.before) >= Len(obs.before)) =>
        env.detected = AcceptReference(obs.before, obs.pre.previousEnergy,
                                       obs.energy)

\* an energy accepted after a previous energy of 0
C23_Witness ==
    /\ env.done
    /\ env.detected
    /\ obs.pre.previousEnergy = 0
    /\ Sum(obs.before) >= Len(obs.before)
    /\ ap.beatHistory = <<now>>

\* 0.6 times the mean of the consecutive differences of h, clamped into
\* [150, 300], as num / den
ClampedReference(h) ==
    LET count == Len(h) - 1
        sum == h[Len(h)] - h[1]
    IN  IF 6 * sum < 1500 * count THEN [num |-> 150, den |-> 1]
        ELSE IF 6 * sum > 3000 * count THEN [num |-> 300, den |-> 1]
        ELSE [num |-> 6 * sum, den |-> 10 * count]

\* C24: the minimum inter-beat interval of detectBeat is 200 ms for a beat
\* history of fewer than 2 timestamps and otherwise 0.6 times the mean
\* difference clamped into [150, 300]; it always lies in [150, 300], and a
\* tick pushes a beat onto the history only at least that long after the
\* last one.
C24_MinInterval ==
    /\ \A h \in {ap.beatHistory, obs.pre.beatHistory} :
          LET m == minInterval(h)
          IN  /\ 150 * m.den <= m.num
              /\ m.num <= 300 * m.den
              /\ Len(h) < 2 => m.num = 200 * m.den
              /\ Len(h) >= 2 =>
                    m.num * ClampedReference(h).den
                       = ClampedReference(h).num * m.den
    /\ (obs.op = "frame" /\ ap.beatHistory # obs.pre.beatHistory
          /\ obs.pre.beatHistory # << >>) =>
          LET h == obs.pre.beatHistory
              m == minInterval(h)
          IN  (obs.tick - h[Len(h)]) * m.den >= m.num

\* a beat pushed while the interval is strictly between the two bounds
C24_Witness ==
    /\ obs.op = "frame"
    /\ ap.beatHistory # obs.pre.beatHistory
    /\ Len(obs.pre.beatHistory) >= 2
    /\ minInterval(obs.pre.beatHistory).num
          > 150 * minInterval(obs.pre.beatHistory).den
    /\ minInterval(obs.pre.beatHistory).num
          < 300 * minInterval(obs.pre.beatHistory).den

\* C34: the timestamps of the Beat Events delivered through onBeat are
\* strictly increasing in delivery order, also when predictive and main-path
\* beats alternate.
C34_EventOrder ==
    \A i \in DOMAIN obs.beats :
        obs.beats[i].index > 0 => obs.beats[i].gap > 0

\* C35: after every tick the beat history holds exactly the timestamps of
\* the most recent delivered Beat Events, up to 15.
C35_BeatHistoryContent ==
    obs.op \in {"start", "frame"} => ap.beatHistory = obs.delivered

\* C36: no predictive Beat Event is delivered before the main path has
\* delivered two beats since the start, and the predicted next-beat time is
\* 0 while the beat history holds fewer than 2 timestamps and there is no
\* stabilized tempo.
C36_PredictionAvailability ==
    /\ \A i \in DOMAIN obs.beats :
          obs.beats[i].path = "predictive" => obs.beats[i].mainsBefore >= 2
    /\ (Len(ap.beatHistory) < 2 /\ ap.currentStableBPM = 0) =>
          ap.predictedNextBeatTime = NoPrediction

\* C38: while every Beat Event the detector delivered has been passed to
\* the tracker in order, across timeouts as well, the tracker reports
\* currentBeat = 1 exactly when the event's downbeat flag is true, and every
\* Cycle State it returns has cycle >= 1.
C38_PositionDownbeatAgreement ==
    (/\ app.isListening
     /\ call.op = "updateBeat"
     /\ call.k = ap.beatCount
     /\ call.timestamp = obs.lastTimestamp) =>
        /\ call.ret.currentBeat = 1 <=> call.isDownbeat
        /\ call.ret.cycle >= 1

\* what one tick may do to a history of capacity cap: nothing, or one push
\* at the end, and the oldest entry gone if the push found the history full
FifoStep(before, after, cap) ==
    \/ after = before
    \/ /\ Len(before) < cap
       /\ Len(after) = Len(before) + 1
       /\ SubSeq(after, 1, Len(before)) = before
    \/ /\ Len(before) = cap
       /\ Len(after) = cap
       /\ SubSeq(after, 1, cap - 1) = Tail(before)

\* C20: after every tick the beat history holds at most 15 timestamps and
\* the BPM history at most 20 samples, every BPM sample lies in [60, 200],
\* and a tick leaves each history as it was or pushes one entry at its end,
\* removing exactly the oldest entry when the history was full.
C20_BoundedHistories ==
    /\ Len(ap.beatHistory) <= 15
    /\ Len(ap.bpmHistory) <= 20
    /\ \A i \in 1..Len(ap.bpmHistory) :
          ap.bpmHistory[i] >= 60 * 1000 /\ ap.bpmHistory[i] <= 200 * 1000
    /\ obs.op = "frame" =>
          /\ FifoStep(obs.pre.beatHistory, ap.beatHistory, 15)
          /\ FifoStep(obs.pre.bpmHistory, ap.bpmHistory, 20)

\* a tick that pushes a beat and a sample onto two full histories
C20_Witness ==
    /\ obs.op = "frame"
    /\ Len(obs.pre.beatHistory) = 15
    /\ Len(obs.pre.bpmHistory) = 20
    /\ ap.beatHistory # obs.pre.beatHistory
    /\ ap.bpmHistory # obs.pre.bpmHistory
    /\ Len(ap.beatHistory) = 15
    /\ Len(ap.bpmHistory) = 20

-----------------------------------------------------------------------------
(* Claims about start() and stop() of one processor object, under          *)
(* SpecDetector.                                                           *)

\* C37: when stop() is called from within an onBeat callback, on either
\* path, the tick in flight finishes without a fault and leaves the zeroed
\* histories empty, and at most one further tick runs, which returns at once
\* and requests no frame.
C37_StopInsideOnBeat ==
    /\ obs.op = "onBeat" =>
          /\ ~env.thrown
          /\ Detection(ap) = Detection(NewAudioProcessor)
          /\ env.loops <= 1
    /\ (obs.op = "frame" /\ env.stopped /\ ~obs.pre.analyser) =>
          /\ obs.beats = << >>
          /\ ap = obs.pre
          /\ env.loops = 0

\* C17: after stop() the detection state equals its initial value, so the
\* processor, once start() is called after a stop(), holds the detection
\* state of a freshly constructed processor started with it and fed the same
\* snapshots at the same times, and every step delivers to its callbacks
\* exactly the Beat Events and tempo updates the fresh one delivers.
C17_ReplayAfterStop ==
    env.twinOn =>
        /\ Detection(ap) = Detection(env.twin)
        /\ env.out = env.twinOut

\* C18: the first tick of every start(), a start() not preceded by stop()
\* included, finds the processor in the initial detection state.
C18_StartResets ==
    obs.op = "start" => Detection(obs.pre) = Detection(NewAudioProcessor)

\* C19: from a stop() call to the next start() call, wherever the stop() was
\* called, once the tick in flight is over the detection state is the
\* initial one and no step delivers a Beat Event or a tempo update.
C19_StopCancels ==
    (env.stopped /\ obs.op \notin {"onBeat", "onBPMUpdate"}) =>
        /\ Detection(ap) = Detection(NewAudioProcessor)
        /\ env.out = NoOutput

-----------------------------------------------------------------------------
(* Claims about the App's sessions, checked under SpecSession.             *)

\* C39: at most one AudioProcessor runs per App at any time, and after
\* stopListening nothing changes the displayed beat, cycle, BPM or
\* noMusicDetected until the next startListening, also when startListening
\* is invoked again while an earlier start() awaits the microphone.
C39_SessionExclusivity ==
    /\ Cardinality(Running) <= 1
    /\ env.quiet =>
          /\ app.currentBeat = 0
          /\ app.cycle = 0
          /\ app.bpm = 0
          /\ ~app.noMusicDetected

\* after unmount no processor runs
SessionEndsAtUnmount == ~env.mounted => Running = {}

=============================================================================
